---- MODULE Spec2Model ----
(***************************************************************************)
(* Product listing of the pet shop storefront (ItemProductList.jsx):       *)
(* sentiment normalisation, combined display rating, badge classifier,     *)
(* rating buckets and the multi-criteria filter over the fetched list.     *)
(* Further sections model the checkout dialog (Checkout.jsx), the rate     *)
(* limiter (security.js), the dashboard edit dialog (Dashboard.jsx),      *)
(* the load of the product page (ProductDetail.jsx) and the mock cart      *)
(* (mockData.js), each with a specification of its own.                    *)
(*                                                                         *)
(* Numbers.  JavaScript numbers are modelled by exact scaled integers:     *)
(*   average_rating      in hundredths           (4.5  -> 450)             *)
(*   average_sentiment   in tenths, as received  (8.2  -> 82, 1.0 -> 10)   *)
(*   normalised sentiment in twentieths          (8.2  -> 164)             *)
(*   combined rating and stars in 1/1800         (4.8  -> 8640)            *)
(* With these units every product and quotient of the code is an integer.  *)
(* An optional value (undefined / null / absent field) is the empty        *)
(* sequence << >>, a present value v is << v >>.  Strings that the code    *)
(* slices, concatenates or lower-cases are sequences of characters.        *)
(***************************************************************************)
EXTENDS Integers, Sequences, FiniteSets, TLC

VARIABLES
    products,               \* useState([]): the fetched product list
    productRatings,         \* useState({}): product id -> rating stats
    loading,                \* useState(true)
    error,                  \* useState(null): << >> or << message >>
    selectedCategories,     \* useState(new Set())
    selectedOwners,         \* useState(new Set())
    selectedBadges,         \* useState(new Set())
    selectedRatingRanges,   \* useState(new Set())
    category,               \* prop: category of the page
    searchTerm,             \* prop: search term of the page
    fetches,                \* fetchProducts calls whose await is pending
    filteredProducts,       \* useMemo: the visible list
    allBadges,              \* useMemo: the badge filter options
    lastFilterOp,           \* history: the last filter handler that ran
    now,                    \* Date.now(), in days
    arg,                    \* inputs of a direct helper call
    res,                    \* result of the last direct helper call
    cartLog,                \* the last add-to-cart activation and its effect
    product_comment_vote,   \* the vote table, one row per position (row id)
    voteRequests,           \* POST /api/comments/{id}/vote requests in flight
    voteResponses,          \* the answers given to vote requests
    showFilters,            \* useState(false): the filter panel is open
    checkout,               \* Checkout: form, loading, error, validationErrors
    orderRequests,          \* every POST /api/orders sent, with its state
    onOrderComplete,        \* the calls of the onOrderComplete prop
    clock,                  \* Date.now(), in milliseconds
    limiter,                \* a RateLimiter: maxRequests, windowMs, requests
    limiterLog,             \* history: every isAllowed call and its answer
    dashboard,              \* Dashboard: products, editingProduct, editForm
    putRequests,            \* every PUT /api/products/{id} sent
    detail,                 \* ProductDetail: the page state
    detailFetches,          \* every fetchProductDetails call, with its requests
    localStorage            \* the mock cart stored under 'mini_amazon_cart'

vars == << products, productRatings, loading, error, selectedCategories,
           selectedOwners, selectedBadges, selectedRatingRanges, category,
           searchTerm, fetches, filteredProducts, allBadges, lastFilterOp,
           now, arg, res, cartLog, product_comment_vote, voteRequests,
           voteResponses, showFilters, checkout, orderRequests, onOrderComplete,
           clock, limiter, limiterLog, dashboard, putRequests, detail,
           detailFetches, localStorage >>

voteVars == << product_comment_vote, voteRequests, voteResponses >>
checkoutVars == << checkout, orderRequests, onOrderComplete >>
limiterVars == << limiter, limiterLog >>
dashboardVars == << dashboard, putRequests >>
detailVars == << detail, detailFetches >>
\* the state of the components and utilities outside the listing page
pageVars == << checkoutVars, clock, limiterVars, dashboardVars, detailVars, localStorage >>
\* the state outside the listing component and the helper calls
otherVars == << cartLog, voteVars, showFilters, pageVars >>

listingVars == << products, productRatings, loading, error, selectedCategories,
                  selectedOwners, selectedBadges, selectedRatingRanges, category,
                  searchTerm, fetches, filteredProducts, allBadges,
                  lastFilterOp >>

(* ------------------------------ bounds --------------------------------- *)
\* largest rating_count / comment_count a stats record carries
MaxCount == 1
\* last day the clock reaches; day 0 is the first day
MaxDay == 1
\* most filter values selected at once over the four dimensions
MaxSelected == 2
\* most vote requests sent in a run
MaxVotes == 3
\* most ratings and most scored comments of the product that is aggregated
MaxRatings == 3
MaxComments == 2

(* --------------------------- small helpers ----------------------------- *)
Max(a, b) == IF a >= b THEN a ELSE b
Min(a, b) == IF a <= b THEN a ELSE b
IsNum(x) == x # << >>

\* category names, as character sequences
Toys == << "T", "o", "y", "s" >>
Food == << "F", "o", "o", "d" >>

(* ----------------------------- sentiment ------------------------------- *)
\* ItemProductList.jsx:87-92.  s: optional tenths; result: optional twentieths
normalizeSentiment(s) ==
    IF ~IsNum(s) THEN << >>
    ELSE IF s[1] >= -10 /\ s[1] <= 10 THEN << 110 + 9 * s[1] >>   \* 5.5 + 4.5*s
    ELSE IF s[1] = 0 THEN << 110 >>
    ELSE << Max(20, Min(200, 2 * s[1])) >>

\* mutant: the sentiment polarity is added with weight 1 instead of 0.5
calculateCombinedRating_fullWeight(rd) ==
    IF rd = << >> \/ rd[1].rating_count = 0
    THEN [stars |-> 0, displayRating |-> 0, hasRatings |-> FALSE, avgSentiment |-> << >>]
    ELSE LET starRating == rd[1].average_rating[1]
             s1to10 == normalizeSentiment(rd[1].average_sentiment)
             polarity == IF IsNum(s1to10) THEN s1to10[1] - 110 ELSE 0
             sentimentAdjustment == 20 * polarity
             combinedRating == Max(0, Min(9000, 18 * starRating + sentimentAdjustment))
         IN [stars |-> ((combinedRating + 450) \div 900) * 900,
             displayRating |-> combinedRating,
             hasRatings |-> TRUE,
             avgSentiment |-> s1to10]

\* mutant: the stars are cut down to the half star below (floor, not round)
calculateCombinedRating_floorStars(rd) ==
    IF rd = << >> \/ rd[1].rating_count = 0
    THEN [stars |-> 0, displayRating |-> 0, hasRatings |-> FALSE, avgSentiment |-> << >>]
    ELSE LET starRating == rd[1].average_rating[1]
             s1to10 == normalizeSentiment(rd[1].average_sentiment)
             polarity == IF IsNum(s1to10) THEN s1to10[1] - 110 ELSE 0
             sentimentAdjustment == 10 * polarity
             combinedRating == Max(0, Min(9000, 18 * starRating + sentimentAdjustment))
         IN [stars |-> (combinedRating \div 900) * 900,
             displayRating |-> combinedRating,
             hasRatings |-> TRUE,
             avgSentiment |-> s1to10]

\* mutant: the combined rating is not clamped into [0, 5]
calculateCombinedRating_noClamp(rd) ==
    IF rd = << >> \/ rd[1].rating_count = 0
    THEN [stars |-> 0, displayRating |-> 0, hasRatings |-> FALSE, avgSentiment |-> << >>]
    ELSE LET starRating == rd[1].average_rating[1]
             s1to10 == normalizeSentiment(rd[1].average_sentiment)
             polarity == IF IsNum(s1to10) THEN s1to10[1] - 110 ELSE 0
             sentimentAdjustment == 10 * polarity
             combinedRating == 18 * starRating + sentimentAdjustment
         IN [stars |-> ((combinedRating + 450) \div 900) * 900,
             displayRating |-> combinedRating,
             hasRatings |-> TRUE,
             avgSentiment |-> s1to10]

\* ItemProductList.jsx:94-109.  rd: << >> or << stats >>
calculateCombinedRating(rd) ==
    IF rd = << >> \/ rd[1].rating_count = 0
    THEN [stars |-> 0, displayRating |-> 0, hasRatings |-> FALSE, avgSentiment |-> << >>]
    ELSE LET starRating == rd[1].average_rating[1]
             s1to10 == normalizeSentiment(rd[1].average_sentiment)
             \* polarity * 4.5 * 20, i.e. (s1to10 - 5.5) in twentieths
             polarity == IF IsNum(s1to10) THEN s1to10[1] - 110 ELSE 0
             \* polarity * 0.5 in 1/1800: (x/20)/4.5 * 0.5 * 1800 = 10 * x
             sentimentAdjustment == 10 * polarity
             combinedRating == Max(0, Min(9000, 18 * starRating + sentimentAdjustment))
         IN [stars |-> ((combinedRating + 450) \div 900) * 900,
             displayRating |-> combinedRating,
             hasRatings |-> TRUE,
             avgSentiment |-> s1to10]

(* ------------------------------- badges -------------------------------- *)
MostFavourite == << "Most Favourite" >>
TryMe == << "Try Me" >>
NotRated == << "Not rated / Recently added" >>
PetFavorite == << "Pet Favorite" >>
PopularAmong(cat) ==
    << "Popular among " >> \o (IF cat # << >> THEN cat ELSE << "p", "e", "t", "s" >>)

\* 14 * 24 * 60 * 60 * 1000 ms, in days
TwoWeeks == 14

\* The label the rating-stats endpoint puts in badge_label (spec 4.3),
\* computed by the server on day t.
ServerBadge(product, stats, t) ==
    LET s == stats.average_sentiment
    IN IF IsNum(s) /\ s[1] >= 80 THEN MostFavourite
       ELSE IF IsNum(s) /\ s[1] >= 65 THEN PopularAmong(product.category)
       ELSE IF IsNum(s) /\ s[1] >= 45 THEN TryMe
       ELSE IF stats.comment_count = 0 /\ IsNum(product.created_at)
               /\ t - product.created_at[1] < TwoWeeks THEN NotRated
       ELSE PetFavorite

\* mutant: the recency rule looks at comment_count instead of rating_count
computeBadge_commentCount(product, rd, t) ==
    IF rd # << >> /\ rd[1].badge_label # << >> THEN rd[1].badge_label
    ELSE LET n == normalizeSentiment(IF rd = << >> THEN << >> ELSE rd[1].average_sentiment)
             avgSent == IF IsNum(n) THEN n[1] ELSE 0
             commentCount == IF rd = << >> THEN 0 ELSE rd[1].comment_count
             createdAt == product.created_at
             twoWeeksAgo == t - TwoWeeks
         IN IF avgSent >= 160 THEN MostFavourite
            ELSE IF avgSent >= 130 THEN PopularAmong(product.category)
            ELSE IF avgSent >= 90 THEN TryMe
            ELSE IF commentCount = 0 /\ IsNum(createdAt) /\ createdAt[1] > twoWeeksAgo
                 THEN NotRated
            ELSE PetFavorite

\* mutant: a missing sentiment counts as the neutral 5.5 instead of 0
computeBadge_neutralDefault(product, rd, t) ==
    IF rd # << >> /\ rd[1].badge_label # << >> THEN rd[1].badge_label
    ELSE LET n == normalizeSentiment(IF rd = << >> THEN << >> ELSE rd[1].average_sentiment)
             avgSent == IF IsNum(n) THEN n[1] ELSE 110
             ratingCount == IF rd = << >> THEN 0 ELSE rd[1].rating_count
             createdAt == product.created_at
             twoWeeksAgo == t - TwoWeeks
         IN IF avgSent >= 160 THEN MostFavourite
            ELSE IF avgSent >= 130 THEN PopularAmong(product.category)
            ELSE IF avgSent >= 90 THEN TryMe
            ELSE IF ratingCount = 0 /\ IsNum(createdAt) /\ createdAt[1] > twoWeeksAgo
                 THEN NotRated
            ELSE PetFavorite

\* ItemProductList.jsx:184-196
computeBadge(product, rd, t) ==
    IF rd # << >> /\ rd[1].badge_label # << >> THEN rd[1].badge_label
    ELSE LET n == normalizeSentiment(IF rd = << >> THEN << >> ELSE rd[1].average_sentiment)
             avgSent == IF IsNum(n) THEN n[1] ELSE 0
             ratingCount == IF rd = << >> THEN 0 ELSE rd[1].rating_count
             createdAt == product.created_at
             twoWeeksAgo == t - TwoWeeks
         IN IF avgSent >= 160 THEN MostFavourite
            ELSE IF avgSent >= 130 THEN PopularAmong(product.category)
            ELSE IF avgSent >= 90 THEN TryMe
            ELSE IF ratingCount = 0 /\ IsNum(createdAt) /\ createdAt[1] > twoWeeksAgo
                 THEN NotRated
            ELSE PetFavorite

(* --------------------------- rating buckets ---------------------------- *)
\* ItemProductList.jsx:224-230: the keys in order, and each key's test
RATING_BUCKETS == << "no", "45_5", "4_449", "3_399", "0_299" >>

\* mutant: the ranges test the sentiment-adjusted display rating
BucketTest_displayRating(key, rd) ==
    LET shown == calculateCombinedRating(rd).displayRating
    IN CASE key = "no"    -> rd = << >> \/ rd[1].rating_count = 0
         [] key = "45_5"  -> rd # << >> /\ rd[1].rating_count > 0 /\ shown >= 450 * 18
         [] key = "4_449" -> rd # << >> /\ rd[1].rating_count > 0 /\ shown >= 400 * 18
                             /\ shown < 450 * 18
         [] key = "3_399" -> rd # << >> /\ rd[1].rating_count > 0 /\ shown >= 300 * 18
                             /\ shown < 400 * 18
         [] key = "0_299" -> rd # << >> /\ rd[1].rating_count > 0 /\ shown < 300 * 18

\* mutant: the top range starts above 4.5, so that 4.5 is in no range
BucketTest_openTop(key, rd) ==
    CASE key = "no"    -> rd = << >> \/ rd[1].rating_count = 0
      [] key = "45_5"  -> rd # << >> /\ rd[1].rating_count > 0
                          /\ IsNum(rd[1].average_rating) /\ rd[1].average_rating[1] > 450
      [] key = "4_449" -> rd # << >> /\ rd[1].rating_count > 0
                          /\ IsNum(rd[1].average_rating) /\ rd[1].average_rating[1] >= 400
                          /\ rd[1].average_rating[1] < 450
      [] key = "3_399" -> rd # << >> /\ rd[1].rating_count > 0
                          /\ IsNum(rd[1].average_rating) /\ rd[1].average_rating[1] >= 300
                          /\ rd[1].average_rating[1] < 400
      [] key = "0_299" -> rd # << >> /\ rd[1].rating_count > 0
                          /\ IsNum(rd[1].average_rating) /\ rd[1].average_rating[1] < 300

BucketTest(key, rd) ==
    CASE key = "no"    -> rd = << >> \/ rd[1].rating_count = 0
      [] key = "45_5"  -> rd # << >> /\ rd[1].rating_count > 0
                          /\ IsNum(rd[1].average_rating) /\ rd[1].average_rating[1] >= 450
      [] key = "4_449" -> rd # << >> /\ rd[1].rating_count > 0
                          /\ IsNum(rd[1].average_rating) /\ rd[1].average_rating[1] >= 400
                          /\ rd[1].average_rating[1] < 450
      [] key = "3_399" -> rd # << >> /\ rd[1].rating_count > 0
                          /\ IsNum(rd[1].average_rating) /\ rd[1].average_rating[1] >= 300
                          /\ rd[1].average_rating[1] < 400
      [] key = "0_299" -> rd # << >> /\ rd[1].rating_count > 0
                          /\ IsNum(rd[1].average_rating) /\ rd[1].average_rating[1] < 300

\* Number.prototype.toFixed(1) of a value in 1/1800: the nearest tenth, the
\* larger one on a tie.  Result in tenths (4.8 -> 48).
toFixed1(x) == (x + 90) \div 180

\* mutant: the rating row only checks that stats exist
RatingDisplay_statsOnly(rd) ==
    IF rd # << >>
    THEN [kind |-> "stars", stars |-> calculateCombinedRating(rd).stars,
          label |-> << toFixed1(calculateCombinedRating(rd).displayRating) >>]
    ELSE [kind |-> "No ratings yet", stars |-> 0, label |-> << >>]

\* ItemProductList.jsx:497-521: what the card's rating row shows
RatingDisplay(rd) ==
    IF rd # << >> /\ rd[1].rating_count > 0
    THEN [kind |-> "stars", stars |-> calculateCombinedRating(rd).stars,
          label |-> << toFixed1(calculateCombinedRating(rd).displayRating) >>]
    ELSE [kind |-> "No ratings yet", stars |-> 0, label |-> << >>]

(* ------------------------- inputs of the helpers ----------------------- *)
\* average_rating values (hundredths): every bucket boundary and both ends
RatingVals == { 100, 299, 300, 399, 400, 449, 450, 467, 500 }
\* average_sentiment values as received (tenths): the 1-10 scale with every
\* badge threshold, the legacy polarity range [-1, 1] and a value above 10
SentVals == { -10, 0, 5, 10, 20, 44, 45, 64, 65, 79, 80, 82, 85, 100, 120 }
\* creation days: absent, old, crossing the two-week line during the run, new
CreatedVals == { << >>, << -20 >>, << -13 >>, << -3 >> }

Product(id, name, cat, created_at, stock, owner_name, owner, owner_uid) ==
    [id |-> id, name |-> name, description |-> << >>, category |-> cat,
     created_at |-> created_at, stock |-> stock, max_stock |-> << >>,
     owner_name |-> owner_name, owner_display_name |-> << >>, owner |-> owner,
     owner_uid |-> owner_uid]

ProductUniverse ==
    { Product(1, << "B", "a", "l", "l" >>, c, d, 5, << >>, << >>, << >>) :
        c \in { << >>, Toys }, d \in CreatedVals }

\* The aggregates of a rating-stats response (spec 4.2): an average is
\* absent exactly when there is nothing to average.
Aggregates ==
    { [average_rating |-> a, rating_count |-> rc, average_sentiment |-> s, comment_count |-> cc] :
        a \in { << >> } \cup { << v >> : v \in RatingVals }, rc \in 0..MaxCount,
        s \in { << >> } \cup { << v >> : v \in SentVals }, cc \in 0..MaxCount }

WellFormed(g) ==
    /\ (g.rating_count = 0) <=> (g.average_rating = << >>)
    /\ (g.comment_count = 0) => (g.average_sentiment = << >>)

WithLabel(g, label) ==
    [average_rating |-> g.average_rating, rating_count |-> g.rating_count,
     average_sentiment |-> g.average_sentiment, comment_count |-> g.comment_count,
     badge_label |-> label]

\* The stats records the endpoint can return for a product by day t: with
\* the server's label of some day up to t, or without a label.
StatsFor(product, t) ==
    UNION { { WithLabel(g, l) : l \in { << >> } \cup { ServerBadge(product, g, d) : d \in 0..t } } :
            g \in { h \in Aggregates : WellFormed(h) } }

\* Checkout.jsx:7-19: the state of a checkout dialog at construction
CheckoutFields == { "fullName", "phone", "address", "city", "province", "postalCode", "country" }
EmptyForm == [f \in CheckoutFields |-> << >>]
CheckoutUnmounted ==
    /\ checkout = [form |-> EmptyForm, loading |-> FALSE, error |-> << >>,
                   validationErrors |-> << >>]
    /\ orderRequests = << >>
    /\ onOrderComplete = << >>

\* security.js:79-83: a limiter built with the default arguments, never asked
LimiterUnused ==
    /\ limiter = [maxRequests |-> 100, windowMs |-> 60000, requests |-> << >>]
    /\ limiterLog = << >>

\* Dashboard.jsx:8-20: the state of the dashboard at construction
EditFormFields == { "name", "description", "price", "stock", "category", "image_url" }
EmptyEditForm == [f \in EditFormFields |-> << "string", << >> >>]
DashboardUnmounted ==
    /\ dashboard = [products |-> << >>, editingProduct |-> << >>, editForm |-> EmptyEditForm]
    /\ putRequests = << >>

\* ProductDetail.jsx:11-16: the state of the product page at construction
DetailUnmounted ==
    /\ detail = [product |-> << >>, ratingData |-> << >>, comments |-> << >>,
                 ratings |-> << >>, loading |-> TRUE, error |-> << >>]
    /\ detailFetches = << >>

\* the components outside the listing are not part of the run
PagesUnmounted ==
    /\ CheckoutUnmounted
    /\ clock = 0
    /\ LimiterUnused
    /\ DashboardUnmounted
    /\ DetailUnmounted
    /\ localStorage = << >>

\* no vote was ever cast or requested
NoVotes ==
    /\ product_comment_vote = << >>
    /\ voteRequests = {}
    /\ voteResponses = {}

\* the listing is not part of the run
ListingUnmounted ==
    /\ products = << >>
    /\ productRatings = << >>
    /\ loading = TRUE
    /\ error = << >>
    /\ selectedCategories = {}
    /\ selectedOwners = {}
    /\ selectedBadges = {}
    /\ selectedRatingRanges = {}
    /\ category = << >>
    /\ searchTerm = << >>
    /\ fetches = {}
    /\ filteredProducts = << >>
    /\ allBadges = {}
    /\ lastFilterOp = "none"
    /\ cartLog = << >>
    /\ showFilters = FALSE

(* ------------------- direct calls of the helpers ----------------------- *)
NoArg == [product |-> Product(1, << >>, << >>, << >>, 0, << >>, << >>, << >>), ratingData |-> << >>]
NoRes == [op |-> "none", val |-> << >>]

\* normalizeSentiment(ratingData?.average_sentiment)
CallNormalizeSentiment ==
    /\ res' = [op |-> "normalizeSentiment",
               val |-> normalizeSentiment(IF arg.ratingData = << >> THEN << >>
                                          ELSE arg.ratingData[1].average_sentiment)]
    /\ UNCHANGED << listingVars, now, arg, otherVars >>

CallCalculateCombinedRating ==
    /\ res' = [op |-> "calculateCombinedRating", val |-> calculateCombinedRating(arg.ratingData)]
    /\ UNCHANGED << listingVars, now, arg, otherVars >>

CallComputeBadge ==
    /\ res' = [op |-> "computeBadge", val |-> computeBadge(arg.product, arg.ratingData, now)]
    /\ UNCHANGED << listingVars, now, arg, otherVars >>

CallBucketTests ==
    /\ res' = [op |-> "RATING_BUCKETS",
               val |-> { RATING_BUCKETS[i] : i \in { j \in 1..Len(RATING_BUCKETS) :
                                                       BucketTest(RATING_BUCKETS[j], arg.ratingData) } }]
    /\ UNCHANGED << listingVars, now, arg, otherVars >>

\* ItemProductList.jsx:441-521: one card of the grid
RenderCard ==
    /\ res' = [op |-> "card",
               val |-> [combined |-> calculateCombinedRating(arg.ratingData),
                        badgeText |-> computeBadge(arg.product, arg.ratingData, now),
                        rating |-> RatingDisplay(arg.ratingData)]]
    /\ UNCHANGED << listingVars, now, arg, otherVars >>

InitHelpers ==
    /\ products = << >>
    /\ productRatings = << >>
    /\ loading = TRUE
    /\ error = << >>
    /\ selectedCategories = {}
    /\ selectedOwners = {}
    /\ selectedBadges = {}
    /\ selectedRatingRanges = {}
    /\ category = << >>
    /\ searchTerm = << >>
    /\ fetches = {}
    /\ filteredProducts = << >>
    /\ allBadges = {}
    /\ lastFilterOp = "none"
    /\ now \in 0..MaxDay
    /\ \E p \in ProductUniverse :
         \E rd \in { << >> } \cup { << s >> : s \in StatsFor(p, now) } :
            arg = [product |-> p, ratingData |-> rd]
    /\ res = NoRes
    /\ cartLog = << >>
    /\ NoVotes
    /\ PagesUnmounted
    /\ showFilters = FALSE

NextHelpers ==
    \/ CallNormalizeSentiment
    \/ CallCalculateCombinedRating
    \/ CallComputeBadge
    \/ CallBucketTests
    \/ RenderCard

SpecHelpers == InitHelpers /\ [][NextHelpers]_vars

(* ============================ the listing ============================== *)
(* ----------------------------- strings --------------------------------- *)
\* String.prototype.toLowerCase over the letters the catalogue uses
LowerChar(c) ==
    CASE c = "B" -> "b" [] c = "E" -> "e" [] c = "F" -> "f" [] c = "K" -> "k"
      [] c = "T" -> "t" [] OTHER -> c
toLowerCase(str) == [i \in 1..Len(str) |-> LowerChar(str[i])]
\* String.prototype.includes
includes(str, q) == \E i \in 1..(Len(str) - Len(q) + 1) : SubSeq(str, i, i + Len(q) - 1) = q
\* String.prototype.slice(-n)
sliceLast(str, n) == SubSeq(str, Max(1, Len(str) - n + 1), Len(str))

\* mutant: the owner handle is looked at before the names
ownerName_handleFirst(p) ==
    IF p.owner # << >> THEN p.owner
    ELSE IF p.owner_name # << >> THEN p.owner_name
    ELSE IF p.owner_display_name # << >> THEN p.owner_display_name
    ELSE IF p.owner_uid # << >> THEN << "U", "s", "e", "r", " " >> \o sliceLast(p.owner_uid, 6)
    ELSE << "O", "w", "n", "e", "r" >>

\* ItemProductList.jsx:198-199
ownerName(p) ==
    IF p.owner_name # << >> THEN p.owner_name
    ELSE IF p.owner_display_name # << >> THEN p.owner_display_name
    ELSE IF p.owner # << >> THEN p.owner
    ELSE IF p.owner_uid # << >> THEN << "U", "s", "e", "r", " " >> \o sliceLast(p.owner_uid, 6)
    ELSE << "O", "w", "n", "e", "r" >>

(* ------------------------------ the server ----------------------------- *)
\* GET /api/products: the catalogue, in the server's order
Catalogue ==
    << Product(1, << "B", "a", "l", "l" >>, Toys, << -20 >>, 12,
               << "A", "n", "n" >>, << >>, << "u", "1" >>),
       Product(2, << "K", "i", "b", "b", "l", "e" >>, Food, << -13 >>, 0,
               << >>, << "b", "o", "b" >>, << "u", "2" >>),
       Product(3, << "B", "o", "n", "e" >>, << >>, << -3 >>, 3,
               << >>, << >>, << "u", "s", "e", "r", "1", "2", "3", "4" >>) >>

\* the aggregates the server holds for each product
CatalogueAggregates(id) ==
    CASE id = 1 -> [average_rating |-> << 449 >>, rating_count |-> 1,
                    average_sentiment |-> << 100 >>, comment_count |-> 1]
      [] id = 2 -> [average_rating |-> << 300 >>, rating_count |-> 1,
                    average_sentiment |-> << 70 >>, comment_count |-> 1]
      [] id = 3 -> [average_rating |-> << >>, rating_count |-> 0,
                    average_sentiment |-> << >>, comment_count |-> 0]

\* GET /api/products/{id}/rating-stats answered on day t
RatingStatsResponse(product, t) ==
    LET g == CatalogueAggregates(product.id)
    IN WithLabel(g, ServerBadge(product, g, t))

\* the (category, searchTerm) props the page is opened with
PropsValues ==
    { << << >>, << >> >>, << << "t", "o", "y", "s" >>, << "B" >> >> }

(* --------------------------- derived values ---------------------------- *)
\* productRatings[p.id]
Rd(ratings, id) == IF id \in DOMAIN ratings THEN << ratings[id] >> ELSE << >>

\* ItemProductList.jsx:202-206 and 208-212 (as sets; the sort only orders
\* the check boxes)
allCategories == { products[i].category : i \in { j \in 1..Len(products) : products[j].category # << >> } }
allOwners == { ownerName(products[i]) : i \in 1..Len(products) }
\* ItemProductList.jsx:214-221
ComputeAllBadges(P, ratings, t) == { computeBadge(P[i], Rd(ratings, P[i].id), t) : i \in 1..Len(P) }

\* mutant: the owner selection is not consulted
passesFilters_noOwner(p, ratings, sc, so, sb, sr, t) ==
    LET rd == Rd(ratings, p.id)
        badge == computeBadge(p, rd, t)
        InSel(k) == k \in sr
        chosen == SelectSeq(RATING_BUCKETS, InSel)
    IN IF Cardinality(sc) > 0 /\ p.category \notin sc THEN FALSE
       ELSE IF Cardinality(sb) > 0 /\ badge \notin sb THEN FALSE
       ELSE IF Cardinality(sr) > 0 /\ ~(\E i \in 1..Len(chosen) : BucketTest(chosen[i], rd)) THEN FALSE
       ELSE TRUE

\* mutant: every selected rating range has to match (every instead of some)
passesFilters_everyBucket(p, ratings, sc, so, sb, sr, t) ==
    LET rd == Rd(ratings, p.id)
        o == ownerName(p)
        badge == computeBadge(p, rd, t)
        InSel(k) == k \in sr
        chosen == SelectSeq(RATING_BUCKETS, InSel)
    IN IF Cardinality(sc) > 0 /\ p.category \notin sc THEN FALSE
       ELSE IF Cardinality(so) > 0 /\ o \notin so THEN FALSE
       ELSE IF Cardinality(sb) > 0 /\ badge \notin sb THEN FALSE
       ELSE IF Cardinality(sr) > 0 /\ ~(\A i \in 1..Len(chosen) : BucketTest(chosen[i], rd)) THEN FALSE
       ELSE TRUE

\* ItemProductList.jsx:233-256
passesFilters(p, ratings, sc, so, sb, sr, t) ==
    LET rd == Rd(ratings, p.id)
        o == ownerName(p)
        badge == computeBadge(p, rd, t)
        InSel(k) == k \in sr
        chosen == SelectSeq(RATING_BUCKETS, InSel)
    IN IF Cardinality(sc) > 0 /\ p.category \notin sc THEN FALSE
       ELSE IF Cardinality(so) > 0 /\ o \notin so THEN FALSE
       ELSE IF Cardinality(sb) > 0 /\ badge \notin sb THEN FALSE
       ELSE IF Cardinality(sr) > 0 /\ ~(\E i \in 1..Len(chosen) : BucketTest(chosen[i], rd)) THEN FALSE
       ELSE TRUE

\* mutant: a filter that leaves nothing shows the whole list instead
filterProducts_emptyShowsAll(P, ratings, sc, so, sb, sr, t) ==
    LET Pass(p) == passesFilters(p, ratings, sc, so, sb, sr, t)
    IN IF SelectSeq(P, Pass) = << >> THEN P ELSE SelectSeq(P, Pass)

\* ItemProductList.jsx:258-262: products.filter(passesFilters)
filterProducts(P, ratings, sc, so, sb, sr, t) ==
    LET Pass(p) == passesFilters(p, ratings, sc, so, sb, sr, t)
    IN SelectSeq(P, Pass)

\* ItemProductList.jsx:277-278
activeFiltersCount ==
    Cardinality(selectedCategories) + Cardinality(selectedOwners)
      + Cardinality(selectedBadges) + Cardinality(selectedRatingRanges)

\* ItemProductList.jsx:281-308: the filter toolbar and the grid are rendered
GridShown == ~loading /\ error = << >> /\ products # << >>

\* ItemProductList.jsx:590-597: "No products match your selected filters."
NoProductsMatchShown == GridShown /\ Len(filteredProducts) = 0

\* ItemProductList.jsx:264-268
toggleInSet(set, value) == IF value \in set THEN set \ { value } ELSE set \cup { value }

(* ------------------------------ fetching ------------------------------- *)
\* ItemProductList.jsx:33-49: the list of one response
FetchedList(data, cat, q) ==
    LET CatOk(p) == cat = << >> \/ (p.category # << >> /\ toLowerCase(p.category) = toLowerCase(cat))
        ql == toLowerCase(q)
        SearchOk(p) == q = << >> \/ includes(toLowerCase(p.name), ql)
                         \/ (p.description # << >> /\ includes(toLowerCase(p.description), ql))
                         \/ (p.category # << >> /\ includes(toLowerCase(p.category), ql))
    IN SelectSeq(SelectSeq(data, CatOk), SearchOk)

\* ItemProductList.jsx:24-32: the effect of a change of the props starts
\* fetchProducts, which waits for the product list.  The parent changes the
\* props only while no earlier fetch is pending.
StartFetch(cat, q) ==
    /\ fetches = {}
    /\ << cat, q >> \in PropsValues
    /\ << cat, q >> # << category, searchTerm >>
    /\ category' = cat
    /\ searchTerm' = q
    /\ loading' = TRUE
    /\ fetches' = { [phase |-> "products", category |-> cat, searchTerm |-> q, list |-> << >>] }
    /\ UNCHANGED << lastFilterOp, products, productRatings, error, selectedCategories, selectedOwners,
                    selectedBadges, selectedRatingRanges, filteredProducts,
                    allBadges, now, arg, res, otherVars >>

\* mutant: the visible list is not recomputed when the product list changes
ProductsResponse_keepsVisibleList(f) ==
    /\ f \in fetches /\ f.phase = "products"
    /\ LET list == FetchedList(Catalogue, f.category, f.searchTerm)
       IN /\ products' = list
          /\ allBadges' = ComputeAllBadges(list, productRatings, now)
          /\ fetches' = (fetches \ { f }) \cup { [f EXCEPT !.phase = "ratings", !.list = list] }
    /\ UNCHANGED << lastFilterOp, productRatings, loading, error, selectedCategories, selectedOwners,
                    selectedBadges, selectedRatingRanges, category, searchTerm, filteredProducts,
                    now, arg, res, otherVars >>

\* ItemProductList.jsx:32-52 and 63-73: the product list arrives; the list
\* is stored and the rating stats of its products are requested
ProductsResponse(f) ==
    /\ f \in fetches /\ f.phase = "products"
    /\ LET list == FetchedList(Catalogue, f.category, f.searchTerm)
       IN /\ products' = list
          /\ filteredProducts' = filterProducts(list, productRatings, selectedCategories,
                                   selectedOwners, selectedBadges, selectedRatingRanges, now)
          /\ allBadges' = ComputeAllBadges(list, productRatings, now)
          /\ fetches' = (fetches \ { f }) \cup { [f EXCEPT !.phase = "ratings", !.list = list] }
    /\ UNCHANGED << lastFilterOp, productRatings, loading, error, selectedCategories, selectedOwners,
                    selectedBadges, selectedRatingRanges, category, searchTerm, now, arg, res, otherVars >>

\* ItemProductList.jsx:54-60: the product request fails
ProductsFailure(f) ==
    /\ f \in fetches /\ f.phase = "products"
    /\ products' = << >>
    /\ filteredProducts' = << >>
    /\ allBadges' = {}
    /\ error' = << "Failed to load products from server." >>
    /\ loading' = FALSE
    /\ fetches' = fetches \ { f }
    /\ UNCHANGED << lastFilterOp, productRatings, selectedCategories, selectedOwners, selectedBadges,
                    selectedRatingRanges, category, searchTerm, now, arg, res, otherVars >>

\* mutant: a rejected stats request puts the listing into the error state
RatingsResponse_failureIsError(f, failed) ==
    /\ f \in fetches /\ f.phase = "ratings"
    /\ failed \subseteq { f.list[i].id : i \in 1..Len(f.list) }
    /\ LET ok == { f.list[i].id : i \in 1..Len(f.list) } \ failed
           ratingsMap == [id \in ok |->
                            RatingStatsResponse(
                              f.list[CHOOSE i \in 1..Len(f.list) : f.list[i].id = id], now)]
       IN /\ productRatings' = ratingsMap
          /\ filteredProducts' = filterProducts(products, ratingsMap, selectedCategories,
                                   selectedOwners, selectedBadges, selectedRatingRanges, now)
          /\ allBadges' = ComputeAllBadges(products, ratingsMap, now)
    /\ error' = IF failed = {} THEN << >> ELSE << "Failed to load products from server." >>
    /\ loading' = FALSE
    /\ fetches' = fetches \ { f }
    /\ UNCHANGED << lastFilterOp, products, selectedCategories, selectedOwners, selectedBadges,
                    selectedRatingRanges, category, searchTerm, now, arg, res, otherVars >>

\* ItemProductList.jsx:63-84 and 53-60: every stats request of the list has
\* been answered (failed: the products whose request was rejected); the map
\* of the others is stored, the error cleared and loading ended
RatingsResponse(f, failed) ==
    /\ f \in fetches /\ f.phase = "ratings"
    /\ failed \subseteq { f.list[i].id : i \in 1..Len(f.list) }
    /\ LET ok == { f.list[i].id : i \in 1..Len(f.list) } \ failed
           ratingsMap == [id \in ok |->
                            RatingStatsResponse(
                              f.list[CHOOSE i \in 1..Len(f.list) : f.list[i].id = id], now)]
       IN /\ productRatings' = ratingsMap
          /\ filteredProducts' = filterProducts(products, ratingsMap, selectedCategories,
                                   selectedOwners, selectedBadges, selectedRatingRanges, now)
          /\ allBadges' = ComputeAllBadges(products, ratingsMap, now)
    /\ error' = << >>
    /\ loading' = FALSE
    /\ fetches' = fetches \ { f }
    /\ UNCHANGED << lastFilterOp, products, selectedCategories, selectedOwners, selectedBadges,
                    selectedRatingRanges, category, searchTerm, now, arg, res, otherVars >>

(* ------------------------------ filtering ------------------------------ *)
\* ItemProductList.jsx:345-355: a category check box.  The check boxes and
\* the Clear button exist only while the grid is shown; MaxSelected limits
\* how many values the user ticks.
ToggleCategory(c) ==
    /\ GridShown /\ c \in allCategories
    /\ c \in selectedCategories \/ activeFiltersCount < MaxSelected
    /\ selectedCategories' = toggleInSet(selectedCategories, c)
    /\ filteredProducts' = filterProducts(products, productRatings, selectedCategories',
                             selectedOwners, selectedBadges, selectedRatingRanges, now)
    /\ lastFilterOp' = "toggle"
    /\ UNCHANGED << products, productRatings, loading, error, selectedOwners, selectedBadges,
                    selectedRatingRanges, category, searchTerm, fetches, allBadges, now, arg, res, otherVars >>

\* ItemProductList.jsx:366-376: an owner check box
ToggleOwner(o) ==
    /\ GridShown /\ o \in allOwners
    /\ o \in selectedOwners \/ activeFiltersCount < MaxSelected
    /\ selectedOwners' = toggleInSet(selectedOwners, o)
    /\ filteredProducts' = filterProducts(products, productRatings, selectedCategories,
                             selectedOwners', selectedBadges, selectedRatingRanges, now)
    /\ lastFilterOp' = "toggle"
    /\ UNCHANGED << products, productRatings, loading, error, selectedCategories, selectedBadges,
                    selectedRatingRanges, category, searchTerm, fetches, allBadges, now, arg, res, otherVars >>

\* ItemProductList.jsx:384-394: a badge check box
ToggleBadge(b) ==
    /\ GridShown /\ b \in allBadges
    /\ b \in selectedBadges \/ activeFiltersCount < MaxSelected
    /\ selectedBadges' = toggleInSet(selectedBadges, b)
    /\ filteredProducts' = filterProducts(products, productRatings, selectedCategories,
                             selectedOwners, selectedBadges', selectedRatingRanges, now)
    /\ lastFilterOp' = "toggle"
    /\ UNCHANGED << products, productRatings, loading, error, selectedCategories, selectedOwners,
                    selectedRatingRanges, category, searchTerm, fetches, allBadges, now, arg, res, otherVars >>

\* ItemProductList.jsx:402-412: a rating range check box
ToggleRatingRange(k) ==
    /\ GridShown /\ k \in { RATING_BUCKETS[i] : i \in 1..Len(RATING_BUCKETS) }
    /\ k \in selectedRatingRanges \/ activeFiltersCount < MaxSelected
    /\ selectedRatingRanges' = toggleInSet(selectedRatingRanges, k)
    /\ filteredProducts' = filterProducts(products, productRatings, selectedCategories,
                             selectedOwners, selectedBadges, selectedRatingRanges', now)
    /\ lastFilterOp' = "toggle"
    /\ UNCHANGED << products, productRatings, loading, error, selectedCategories, selectedOwners,
                    selectedBadges, category, searchTerm, fetches, allBadges, now, arg, res, otherVars >>

\* mutant: the rating range selection is not reset
clearAllFilters_keepsRanges ==
    /\ GridShown /\ activeFiltersCount > 0
    /\ selectedCategories' = {}
    /\ selectedOwners' = {}
    /\ selectedBadges' = {}
    /\ filteredProducts' = filterProducts(products, productRatings, {}, {}, {},
                             selectedRatingRanges, now)
    /\ lastFilterOp' = "clear"
    /\ UNCHANGED << products, productRatings, loading, error, selectedRatingRanges, category,
                    searchTerm, fetches, allBadges, now, arg, res, otherVars >>

\* ItemProductList.jsx:270-275 and 324-333: the Clear button
clearAllFilters ==
    /\ GridShown /\ activeFiltersCount > 0
    /\ selectedCategories' = {}
    /\ selectedOwners' = {}
    /\ selectedBadges' = {}
    /\ selectedRatingRanges' = {}
    /\ filteredProducts' = filterProducts(products, productRatings, {}, {}, {}, {}, now)
    /\ lastFilterOp' = "clear"
    /\ UNCHANGED << products, productRatings, loading, error, category, searchTerm, fetches,
                    allBadges, now, arg, res, otherVars >>

\* a day passes
Tick ==
    /\ now < MaxDay
    /\ now' = now + 1
    /\ UNCHANGED << listingVars, arg, res, otherVars >>

\* the page right after mount: the first fetchProducts is waiting
Init ==
    /\ products = << >>
    /\ productRatings = << >>
    /\ loading = TRUE
    /\ error = << >>
    /\ selectedCategories = {}
    /\ selectedOwners = {}
    /\ selectedBadges = {}
    /\ selectedRatingRanges = {}
    /\ \E pv \in PropsValues :
          /\ category = pv[1]
          /\ searchTerm = pv[2]
          /\ fetches = { [phase |-> "products", category |-> pv[1], searchTerm |-> pv[2],
                          list |-> << >>] }
    /\ filteredProducts = << >>
    /\ allBadges = {}
    /\ lastFilterOp = "none"
    /\ now = 0
    /\ arg = NoArg
    /\ res = NoRes
    /\ cartLog = << >>
    /\ NoVotes
    /\ PagesUnmounted
    /\ showFilters = FALSE

Next ==
    \/ \E pv \in PropsValues : StartFetch(pv[1], pv[2])
    \/ \E f \in fetches : ProductsResponse(f)
    \/ \E f \in fetches : ProductsFailure(f)
    \/ \E f \in fetches, failed \in { {} } \cup { { Catalogue[i].id } : i \in 1..Len(Catalogue) } :
          RatingsResponse(f, failed)
    \/ \E c \in allCategories : ToggleCategory(c)
    \/ \E o \in allOwners : ToggleOwner(o)
    \/ \E b \in allBadges : ToggleBadge(b)
    \/ \E k \in { "no", "45_5", "4_449", "3_399", "0_299" } : ToggleRatingRange(k)
    \/ clearAllFilters
    \/ Tick

Spec == Init /\ [][Next]_vars

(* ============================ add to cart ============================== *)
\* ItemProductList.jsx:135-142: the first positive capacity field
getMaxStock(p) ==
    IF p.max_stock # << >> /\ p.max_stock[1] > 0 THEN p.max_stock ELSE << >>

\* ItemProductList.jsx:144-165
getStockState(p) ==
    LET stock == p.stock
        max == getMaxStock(p)
    IN IF stock = 0 THEN [key |-> "out", label |-> "Out of Stock", disableCart |-> TRUE]
       ELSE IF stock < 10
            THEN [key |-> "almost", label |-> "Almost Out of Stock", disableCart |-> FALSE]
       ELSE IF max # << >> /\ 2 * stock <= max[1]
            THEN [key |-> "half", label |-> "In Stock", disableCart |-> FALSE]
       ELSE [key |-> "ok", label |-> "In Stock", disableCart |-> FALSE]

\* mutant: the handler does not look at the stock state
handleAddToCart_noStockCheck(product) ==
    /\ GridShown
    /\ product \in { filteredProducts[i] : i \in 1..Len(filteredProducts) }
    /\ cartLog' = << [product |-> product, onAddToCart |-> TRUE] >>
    /\ UNCHANGED << listingVars, now, arg, res, voteVars, showFilters, pageVars >>

\* ItemProductList.jsx:167-172 and 562-564: the add-to-cart control of a
\* card is activated; onAddToCart(product) is called unless the stock state
\* disables the cart
handleAddToCart(product) ==
    /\ GridShown
    /\ product \in { filteredProducts[i] : i \in 1..Len(filteredProducts) }
    /\ cartLog' = << [product |-> product,
                       onAddToCart |-> ~getStockState(product).disableCart] >>
    /\ UNCHANGED << listingVars, now, arg, res, voteVars, showFilters, pageVars >>

NextCart ==
    \/ \E pv \in PropsValues : StartFetch(pv[1], pv[2])
    \/ \E f \in fetches : ProductsResponse(f)
    \/ \E f \in fetches : ProductsFailure(f)
    \/ \E f \in fetches, failed \in { {} } \cup { { Catalogue[i].id } : i \in 1..Len(Catalogue) } :
          RatingsResponse(f, failed)
    \/ \E c \in allCategories : ToggleCategory(c)
    \/ \E o \in allOwners : ToggleOwner(o)
    \/ \E b \in allBadges : ToggleBadge(b)
    \/ \E k \in { "no", "45_5", "4_449", "3_399", "0_299" } : ToggleRatingRange(k)
    \/ clearAllFilters
    \/ Tick
    \/ \E i \in 1..Len(filteredProducts) : handleAddToCart(filteredProducts[i])

\* the listing together with its add-to-cart controls
SpecCart == Init /\ [][NextCart]_vars

(* ====================== from ratings to the card ======================= *)
\* star values of a rating and sentiment scores of a comment (tenths)
RatingValues == 1..5
SentimentScores == { 20, 80, 90 }

RECURSIVE SumSeq(_)
SumSeq(seq) == IF seq = << >> THEN 0 ELSE seq[1] + SumSeq(Tail(seq))
\* the mean of a non-empty sequence, in units of 1/scale of its values'
\* unit, to the nearest unit
MeanScaled(seq, scale) == (2 * scale * SumSeq(seq) + Len(seq)) \div (2 * Len(seq))

\* Rating Aggregator (spec 4.2): the means of the ratings (hundredths) and
\* of the sentiment scores (tenths), undefined when there is nothing to
\* average, and the counts
RatingAggregator(ratings, sentiments) ==
    [average_rating |-> IF ratings = << >> THEN << >> ELSE << MeanScaled(ratings, 100) >>,
     rating_count |-> Len(ratings),
     average_sentiment |-> IF sentiments = << >> THEN << >> ELSE << MeanScaled(sentiments, 1) >>,
     comment_count |-> Len(sentiments)]

BoundedSeqs(S, n) == UNION { [1..k -> S] : k \in 0..n }

\* GET /api/products/{id}/rating-stats for the product's ratings and
\* comments; the answer becomes the card's ratingData, from which nothing
\* has been computed yet
getRatingStats ==
    /\ arg.ratingData = << >>
    /\ arg' = [arg EXCEPT !.ratingData =
                 << WithLabel(RatingAggregator(arg.ratings, arg.sentiments),
                              ServerBadge(arg.product,
                                          RatingAggregator(arg.ratings, arg.sentiments), now)) >>]
    /\ res' = NoRes
    /\ UNCHANGED << listingVars, now, otherVars >>

InitStats ==
    /\ ListingUnmounted
    /\ now = 0
    /\ \E rs \in BoundedSeqs(RatingValues, MaxRatings), ss \in BoundedSeqs(SentimentScores, MaxComments) :
          arg = [product |-> Product(1, << "B", "a", "l", "l" >>, Toys, << -20 >>, 5,
                                     << >>, << >>, << >>),
                 ratingData |-> << >>, ratings |-> rs, sentiments |-> ss]
    /\ res = NoRes
    /\ NoVotes
    /\ PagesUnmounted

NextStats ==
    \/ getRatingStats
    \/ CallCalculateCombinedRating
    \/ CallComputeBadge
    \/ RenderCard

SpecStats == InitStats /\ [][NextStats]_vars

(* ======================== the owner check boxes ======================== *)
\* products that differ in their owner fields only
OwnerUniverse ==
    { [Product(id, << "B", "a", "l", "l" >>, Toys, << -20 >>, 5, n, h, u)
         EXCEPT !.owner_display_name = d] :
        id \in { 1 },
        n \in { << >>, << "A", "n", "n" >> },
        d \in { << >>, << "D", "e", "e" >> },
        h \in { << >>, << "b", "o", "b" >> },
        u \in { << >>, << "u", "1" >>, << "u", "s", "e", "r", "1", "2", "3", "4" >> } }

\* a list of two such products has been loaded, without rating stats
InitOwners ==
    /\ \E p \in OwnerUniverse, q \in OwnerUniverse :
          /\ products = << p, [q EXCEPT !.id = 2] >>
          /\ filteredProducts = << p, [q EXCEPT !.id = 2] >>
          /\ allBadges = ComputeAllBadges(<< p, [q EXCEPT !.id = 2] >>, << >>, 0)
    /\ productRatings = << >>
    /\ loading = FALSE
    /\ error = << >>
    /\ selectedCategories = {}
    /\ selectedOwners = {}
    /\ selectedBadges = {}
    /\ selectedRatingRanges = {}
    /\ category = << >>
    /\ searchTerm = << >>
    /\ fetches = {}
    /\ lastFilterOp = "none"
    /\ now = 0
    /\ arg = NoArg
    /\ res = NoRes
    /\ cartLog = << >>
    /\ NoVotes
    /\ PagesUnmounted
    /\ showFilters = FALSE

NextOwners ==
    \/ \E o \in allOwners : ToggleOwner(o)
    \/ clearAllFilters

SpecOwners == InitOwners /\ [][NextOwners]_vars

(* ========================== the filter panel =========================== *)
\* ItemProductList.jsx:315-322: the Filters button opens or closes the
\* panel; the component renders again, its memoised values are kept
ToggleShowFilters ==
    /\ GridShown
    /\ showFilters' = ~showFilters
    /\ UNCHANGED << listingVars, now, arg, res, cartLog, voteVars, pageVars >>

\* ItemProductList.jsx:337-436: the check boxes are inside the panel
NextPanel ==
    \/ \E pv \in PropsValues : StartFetch(pv[1], pv[2])
    \/ \E f \in fetches : ProductsResponse(f)
    \/ \E f \in fetches : ProductsFailure(f)
    \/ \E f \in fetches, failed \in { {} } \cup { { Catalogue[i].id } : i \in 1..Len(Catalogue) } :
          RatingsResponse(f, failed)
    \/ \E c \in allCategories : showFilters /\ ToggleCategory(c)
    \/ \E o \in allOwners : showFilters /\ ToggleOwner(o)
    \/ \E b \in allBadges : showFilters /\ ToggleBadge(b)
    \/ \E k \in { "no", "45_5", "4_449", "3_399", "0_299" } : showFilters /\ ToggleRatingRange(k)
    \/ clearAllFilters
    \/ Tick
    \/ ToggleShowFilters

\* the listing with its filter panel; every step but Tick renders the
\* component anew
SpecPanel == Init /\ [][NextPanel]_vars

(* ============================ comment votes ============================ *)
\* the comments that can be voted on and the names votes are cast under;
\* the product page always votes as 'Anonymous' (ProductDetail.jsx:114)
Comments == { 7, 8 }
Voters == { "X", "Anonymous" }
Directions == { "up", "down" }
\* the signed unit value of a direction
VoteValue(direction) == IF direction = "up" THEN 1 ELSE -1

\* mutant: the table has no UNIQUE(comment_id, user_name) constraint
InsertVote_noUnique(table, row) ==
    [ok |-> TRUE, table |-> Append(table, row)]

\* part_012:112-120: INSERT INTO product_comment_vote under
\* UNIQUE(comment_id, user_name); the row id is the position in the table
InsertVote(table, row) ==
    IF \E i \in 1..Len(table) :
          table[i].comment_id = row.comment_id /\ table[i].user_name = row.user_name
    THEN [ok |-> FALSE, table |-> table]
    ELSE [ok |-> TRUE, table |-> Append(table, row)]

\* the number of the next request sent
NextRequest == Cardinality(voteRequests) + Cardinality(voteResponses) + 1

\* ProductDetail.jsx:110-116: a thumb of a comment is clicked
handleVote(commentId, direction) ==
    /\ NextRequest <= MaxVotes
    /\ voteRequests' = voteRequests \cup
          { [n |-> NextRequest, comment_id |-> commentId, direction |-> direction,
             user_name |-> "Anonymous"] }
    /\ UNCHANGED << listingVars, now, arg, res, cartLog, showFilters, pageVars, product_comment_vote,
                    voteResponses >>

\* another client of POST /api/comments/{id}/vote, voting under voterName
PostVote(commentId, voterName, direction) ==
    /\ NextRequest <= MaxVotes
    /\ voterName # "Anonymous"
    /\ voteRequests' = voteRequests \cup
          { [n |-> NextRequest, comment_id |-> commentId, direction |-> direction,
             user_name |-> voterName] }
    /\ UNCHANGED << listingVars, now, arg, res, cartLog, showFilters, pageVars, product_comment_vote,
                    voteResponses >>

\* voteComment(commentId, voterName, direction) -> VoteResult | Conflict:
\* the server handles one request with one insert
voteComment(r) ==
    /\ r \in voteRequests
    /\ LET ins == InsertVote(product_comment_vote,
                     [comment_id |-> r.comment_id, user_name |-> r.user_name,
                      value |-> VoteValue(r.direction)])
       IN /\ product_comment_vote' = ins.table
          /\ voteResponses' = voteResponses \cup
                { [request |-> r, status |-> IF ins.ok THEN "ok" ELSE "conflict"] }
    /\ voteRequests' = voteRequests \ { r }
    /\ UNCHANGED << listingVars, now, arg, res, cartLog, showFilters, pageVars >>

InitVotes ==
    /\ ListingUnmounted
    /\ now = 0
    /\ arg = NoArg
    /\ res = NoRes
    /\ NoVotes
    /\ PagesUnmounted

NextVotes ==
    \/ \E c \in Comments, d \in Directions : handleVote(c, d)
    \/ \E c \in Comments, v \in Voters, d \in Directions : PostVote(c, v, d)
    \/ \E r \in voteRequests : voteComment(r)

SpecVotes == InitVotes /\ [][NextVotes]_vars

(* ============================== checkout =============================== *)
\* the orders one checkout dialog sends in a run
MaxOrders == 2

DigitChars == { "0", "1", "2", "3", "4", "5", "6", "7", "8", "9" }
UpperChars == { "A", "B", "C", "D", "E", "F", "G", "H", "I", "J", "K", "L", "M", "N", "O",
                "P", "Q", "R", "S", "T", "U", "V", "W", "X", "Y", "Z" }
WhiteSpace == { " ", "\n", "\t" }
UpperChar(c) ==
    CASE c = "a" -> "A" [] c = "k" -> "K" [] c = "l" -> "L" [] c = "n" -> "N"
      [] c = "o" -> "O" [] c = "x" -> "X" [] OTHER -> c
toUpperCase(str) == [i \in 1..Len(str) |-> UpperChar(str[i])]
\* String.prototype.trim
RECURSIVE trimStart(_)
trimStart(str) == IF str # << >> /\ Head(str) \in WhiteSpace THEN trimStart(Tail(str)) ELSE str
RECURSIVE trimEnd(_)
trimEnd(str) ==
    IF str # << >> /\ str[Len(str)] \in WhiteSpace THEN trimEnd(SubSeq(str, 1, Len(str) - 1)) ELSE str
trim(str) == trimEnd(trimStart(str))

\* Checkout.jsx:43: form.phone.replace(/[\s\-\(\)]/g, '')
stripPhone(str) ==
    LET Kept(c) == c \notin WhiteSpace \cup { "-", "(", ")" }
    IN SelectSeq(str, Kept)
\* Checkout.jsx:43: /^[\+]?[1-9][\d]{0,15}$/
phoneRegex(str) ==
    LET body == IF str # << >> /\ Head(str) = "+" THEN Tail(str) ELSE str
    IN /\ Len(body) \in 1..16
       /\ body[1] \in DigitChars \ { "0" }
       /\ \A i \in 2..Len(body) : body[i] \in DigitChars
\* Checkout.jsx:50: /^\d{5}(-\d{4})?$/
usZipRegex(str) ==
    \/ Len(str) = 5 /\ \A i \in 1..5 : str[i] \in DigitChars
    \/ /\ Len(str) = 10
       /\ \A i \in 1..5 : str[i] \in DigitChars
       /\ str[6] = "-"
       /\ \A i \in 7..10 : str[i] \in DigitChars
\* Checkout.jsx:51: /^[A-Z]\d[A-Z] \d[A-Z]\d$/
caPostalRegex(str) ==
    /\ Len(str) = 7
    /\ str[1] \in UpperChars /\ str[2] \in DigitChars /\ str[3] \in UpperChars
    /\ str[4] = " "
    /\ str[5] \in DigitChars /\ str[6] \in UpperChars /\ str[7] \in DigitChars

\* Checkout.jsx:34-40: the message of a blank required field
RequiredMessage(f) ==
    CASE f = "fullName" -> "Full name is required"
      [] f = "phone" -> "Phone number is required"
      [] f = "address" -> "Street address is required"
      [] f = "city" -> "City is required"
      [] f = "province" -> "Province/State is required"
      [] f = "postalCode" -> "Postal/ZIP code is required"
      [] f = "country" -> "Country is required"

\* mutant: the postal code is only required, its format is not tested
validateForm_noPostalFormat(form) ==
    LET blank == { f \in CheckoutFields : trim(form[f]) = << >> }
        phoneBad == trim(form.phone) # << >> /\ ~phoneRegex(stripPhone(form.phone))
        keys == blank \cup (IF phoneBad THEN { "phone" } ELSE {})
    IN [f \in keys |->
          IF f = "phone" /\ phoneBad THEN "Please enter a valid phone number"
          ELSE RequiredMessage(f)]

\* Checkout.jsx:31-60: validateForm, the errors object it builds (the form
\* is valid when the object has no key)
validateForm(form) ==
    LET blank == { f \in CheckoutFields : trim(form[f]) = << >> }
        phoneBad == trim(form.phone) # << >> /\ ~phoneRegex(stripPhone(form.phone))
        postalCode == toUpperCase(trim(form.postalCode))
        postalBad == trim(form.postalCode) # << >>
                       /\ ~usZipRegex(postalCode) /\ ~caPostalRegex(postalCode)
        keys == blank \cup (IF phoneBad THEN { "phone" } ELSE {})
                      \cup (IF postalBad THEN { "postalCode" } ELSE {})
    IN [f \in keys |->
          IF f = "phone" /\ phoneBad THEN "Please enter a valid phone number"
          ELSE IF f = "postalCode" /\ postalBad THEN "Please enter a valid postal/ZIP code"
          ELSE RequiredMessage(f)]

\* Checkout.jsx:70-74: the shipping address template, trimmed
shippingAddress(form) ==
    trim(<< "\n" >> \o form.phone \o << "\n" >> \o form.address \o << "\n" >> \o form.city
          \o << ",", " " >> \o form.province \o << ",", " " >> \o form.postalCode
          \o << "\n" >> \o form.country)

\* the values typed into the fields
FullNameValues == { << >>, << " " >>, << "A", "l" >> }
SimpleValues == { << >>, << "x" >> }
PhoneValues ==
    { << >>,
      << "1", "2", "3", "4", "5", "6", "7", "8", "9", "0" >>,
      << "+", "1", " ", "(", "5", "5", "5", ")", " ", "1", "2", "3", "-", "4", "5", "6", "7" >>,
      << "0", "1", "2", "3" >>,
      << "(", ")" >>,
      << "1", "2", "3", "4", "5", "6", "7", "8", "9", "0", "1", "2", "3", "4", "5", "6", "7" >>,
      << "1", "2", "3", "4", "5", "6", "7", "8", "9", "0", "1", "2", "3", "4", "5", "6" >>,
      << "n", "o" >> }
PostalValues ==
    { << >>,
      << "1", "0", "0", "0", "1" >>,
      << "1", "2", "3", "4", "5", "-", "6", "7", "8", "9" >>,
      << "K", "1", "A", " ", "0", "A", "6" >>,
      << "k", "1", "a", " ", "0", "a", "6" >>,
      << " ", "1", "0", "0", "0", "1", " " >>,
      << "n", "o" >>,
      << "1", "0", "0", "0" >>,
      << "K", "1", "A", "0", "A", "6" >>,
      << "1", "2", "3", "4", "5", "-", "6", "7", "8" >> }
FormUniverse ==
    { [fullName |-> n, phone |-> ph, address |-> a, city |-> c, province |-> pr,
       postalCode |-> po, country |-> co] :
        n \in FullNameValues, ph \in PhoneValues, a \in SimpleValues, c \in SimpleValues,
        pr \in SimpleValues, po \in PostalValues, co \in SimpleValues }
\* the values typed during a run of the whole dialog
EditValues(f) ==
    CASE f = "fullName" -> { << >>, << "A", "l" >> }
      [] f = "phone" -> { << >>, << "1", "2", "3", "4", "5", "6", "7", "8", "9", "0" >> }
      [] f = "postalCode" -> { << >>, << "1", "0", "0", "0", "1" >> }
      [] OTHER -> SimpleValues

\* Checkout.jsx:21-29: a field is edited; its validation message, if one is
\* shown, is cleared.  validationErrors holds the fields whose message is
\* shown: an entry set to null shows nothing and is left out.
handleChange(name, value) ==
    /\ name \in CheckoutFields
    /\ checkout' = [checkout EXCEPT
          !.form = [checkout.form EXCEPT ![name] = value],
          !.validationErrors =
              [f \in DOMAIN checkout.validationErrors \ { name } |-> checkout.validationErrors[f]]]
    /\ UNCHANGED << listingVars, now, arg, res, cartLog, voteVars, showFilters, orderRequests,
                    onOrderComplete, clock, limiterVars, dashboardVars, detailVars, localStorage >>

\* Checkout.jsx:80-84: the body of POST /api/orders
OrderBody(form) ==
    [session_id |-> "test_session", shipping_address |-> shippingAddress(form),
     buyer_name |-> form.fullName]
\* the order the server answers the n-th request with
OrderResponse(n) == [id |-> n, session_id |-> "test_session", status |-> "pending"]
PendingOrders == { i \in 1..Len(orderRequests) : orderRequests[i].status = "pending" }

\* mutant: the submit button stays enabled while an order is in flight
handleSubmit_notDisabled ==
    /\ Len(orderRequests) < MaxOrders
    /\ LET errors == validateForm(checkout.form)
       IN IF DOMAIN errors # {}
          THEN /\ checkout' = [checkout EXCEPT !.validationErrors = errors,
                                 !.error = << "Please fix the validation errors below." >>]
               /\ UNCHANGED orderRequests
          ELSE /\ checkout' = [checkout EXCEPT !.validationErrors = errors,
                                 !.loading = TRUE, !.error = << >>]
               /\ orderRequests' = Append(orderRequests,
                                     [body |-> OrderBody(checkout.form), status |-> "pending"])
    /\ UNCHANGED << listingVars, now, arg, res, cartLog, voteVars, showFilters,
                    onOrderComplete, clock, limiterVars, dashboardVars, detailVars, localStorage >>

\* Checkout.jsx:62-84 and 336-338: the form is submitted with the Place
\* Order button, which is disabled while loading; an invalid form shows the
\* validation error, a valid one sends the order request
handleSubmit ==
    /\ ~checkout.loading
    /\ Len(orderRequests) < MaxOrders
    /\ LET errors == validateForm(checkout.form)
       IN IF DOMAIN errors # {}
          THEN /\ checkout' = [checkout EXCEPT !.validationErrors = errors,
                                 !.error = << "Please fix the validation errors below." >>]
               /\ UNCHANGED orderRequests
          ELSE /\ checkout' = [checkout EXCEPT !.validationErrors = errors,
                                 !.loading = TRUE, !.error = << >>]
               /\ orderRequests' = Append(orderRequests,
                                     [body |-> OrderBody(checkout.form), status |-> "pending"])
    /\ UNCHANGED << listingVars, now, arg, res, cartLog, voteVars, showFilters,
                    onOrderComplete, clock, limiterVars, dashboardVars, detailVars, localStorage >>

\* Checkout.jsx:86 and 90-92: the order request succeeds
OrderSucceeds(i) ==
    /\ i \in PendingOrders
    /\ orderRequests' = [orderRequests EXCEPT ![i].status = "ok"]
    /\ onOrderComplete' = Append(onOrderComplete, OrderResponse(i))
    /\ checkout' = [checkout EXCEPT !.loading = FALSE]
    /\ UNCHANGED << listingVars, now, arg, res, cartLog, voteVars, showFilters,
                    clock, limiterVars, dashboardVars, detailVars, localStorage >>

\* the error texts a failed order request carries (none: a network error)
ServerErrors == { << >>, << "Cart is empty" >> }

\* mutant: the failure of the request is not shown
OrderFails_silent(i, serverError) ==
    /\ i \in PendingOrders
    /\ serverError \in ServerErrors
    /\ orderRequests' = [orderRequests EXCEPT ![i].status = "failed"]
    /\ checkout' = [checkout EXCEPT !.loading = FALSE]
    /\ UNCHANGED << listingVars, now, arg, res, cartLog, voteVars, showFilters,
                    onOrderComplete, clock, limiterVars, dashboardVars, detailVars, localStorage >>

\* Checkout.jsx:87-92: the order request fails
OrderFails(i, serverError) ==
    /\ i \in PendingOrders
    /\ serverError \in ServerErrors
    /\ orderRequests' = [orderRequests EXCEPT ![i].status = "failed"]
    /\ checkout' = [checkout EXCEPT
          !.error = IF serverError # << >> THEN serverError
                    ELSE << "Order could not be placed. Please try again." >>,
          !.loading = FALSE]
    /\ UNCHANGED << listingVars, now, arg, res, cartLog, voteVars, showFilters,
                    onOrderComplete, clock, limiterVars, dashboardVars, detailVars, localStorage >>

\* the dialog is not part of the run
NotCheckout ==
    /\ ListingUnmounted
    /\ now = 0
    /\ arg = NoArg
    /\ res = NoRes
    /\ NoVotes

\* a dialog whose fields were filled in, before the first submission
InitForm ==
    /\ NotCheckout
    /\ checkout \in { [form |-> form, loading |-> FALSE, error |-> << >>,
                       validationErrors |-> << >>] : form \in FormUniverse }
    /\ orderRequests = << >>
    /\ onOrderComplete = << >>
    /\ clock = 0
    /\ LimiterUnused
    /\ DashboardUnmounted
    /\ DetailUnmounted
    /\ localStorage = << >>

NextForm ==
    \/ handleSubmit
    \/ \E i \in 1..MaxOrders : OrderSucceeds(i)
    \/ \E i \in 1..MaxOrders, e \in ServerErrors : OrderFails(i, e)

SpecForm == InitForm /\ [][NextForm]_vars

\* the dialog as opened, edited field by field
InitCheckout ==
    /\ NotCheckout
    /\ PagesUnmounted

NextCheckout ==
    \/ \E f \in CheckoutFields : \E v \in EditValues(f) : handleChange(f, v)
    \/ handleSubmit
    \/ \E i \in 1..MaxOrders : OrderSucceeds(i)
    \/ \E i \in 1..MaxOrders, e \in ServerErrors : OrderFails(i, e)

SpecCheckout == InitCheckout /\ [][NextCheckout]_vars

\* every order request ends in a response or in a failure
SpecCheckoutFair ==
    /\ SpecCheckout
    /\ WF_vars(\E i \in 1..MaxOrders : OrderSucceeds(i) \/ \E e \in ServerErrors : OrderFails(i, e))

(* ============================ rate limiter ============================= *)
\* the last value of Date.now() and the number of limiter calls in a run
MaxClock == 2
MaxCalls == 4
Identifiers == { "a", "b" }

\* Date.now() advances by a millisecond
TickClock ==
    /\ clock < MaxClock
    /\ clock' = clock + 1
    /\ UNCHANGED << listingVars, now, arg, res, cartLog, voteVars, showFilters, checkoutVars,
                    limiterVars, dashboardVars, detailVars, localStorage >>

\* this.requests.get(identifier) || []
userRequests(identifier) ==
    IF identifier \in DOMAIN limiter.requests THEN limiter.requests[identifier] ELSE << >>
\* security.js:90: the requests inside the window
validRequests(identifier) ==
    LET InWindow(time) == clock - time < limiter.windowMs
    IN SelectSeq(userRequests(identifier), InWindow)
\* Map.prototype.set
MapSet(map, key, value) ==
    [k \in DOMAIN map \cup { key } |-> IF k = key THEN value ELSE map[k]]

\* mutant: the call is recorded before the limit is tested, so that denied
\* calls count as well
isAllowed_countsDenied(identifier) ==
    /\ Len(limiterLog) < MaxCalls
    /\ LET counted == Append(validRequests(identifier), clock)
           allowed == Len(validRequests(identifier)) < limiter.maxRequests
       IN /\ limiter' = [limiter EXCEPT !.requests = MapSet(limiter.requests, identifier, counted)]
          /\ limiterLog' = Append(limiterLog, [op |-> "isAllowed", identifier |-> identifier,
                                               time |-> clock, allowed |-> allowed])
    /\ UNCHANGED << listingVars, now, arg, res, cartLog, voteVars, showFilters, checkoutVars,
                    clock, dashboardVars, detailVars, localStorage >>

\* security.js:85-101: isAllowed(identifier)
isAllowed(identifier) ==
    /\ Len(limiterLog) < MaxCalls
    /\ IF Len(validRequests(identifier)) >= limiter.maxRequests
       THEN /\ UNCHANGED limiter
            /\ limiterLog' = Append(limiterLog, [op |-> "isAllowed", identifier |-> identifier,
                                                 time |-> clock, allowed |-> FALSE])
       ELSE /\ limiter' = [limiter EXCEPT !.requests =
                              MapSet(limiter.requests, identifier,
                                     Append(validRequests(identifier), clock))]
            /\ limiterLog' = Append(limiterLog, [op |-> "isAllowed", identifier |-> identifier,
                                                 time |-> clock, allowed |-> TRUE])
    /\ UNCHANGED << listingVars, now, arg, res, cartLog, voteVars, showFilters, checkoutVars,
                    clock, dashboardVars, detailVars, localStorage >>

\* security.js:103-105: reset(identifier)
reset(identifier) ==
    /\ Len(limiterLog) < MaxCalls
    /\ limiter' = [limiter EXCEPT !.requests =
                      [k \in DOMAIN limiter.requests \ { identifier } |-> limiter.requests[k]]]
    /\ limiterLog' = Append(limiterLog, [op |-> "reset", identifier |-> identifier,
                                         time |-> clock, allowed |-> TRUE])
    /\ UNCHANGED << listingVars, now, arg, res, cartLog, voteVars, showFilters, checkoutVars,
                    clock, dashboardVars, detailVars, localStorage >>

\* security.js:79-83: new RateLimiter(maxRequests, windowMs)
InitLimiter ==
    /\ NotCheckout
    /\ CheckoutUnmounted
    /\ clock = 0
    /\ limiter \in { [maxRequests |-> m, windowMs |-> w, requests |-> << >>] :
                      m \in 1..2, w \in 1..2 }
    /\ limiterLog = << >>
    /\ DashboardUnmounted
    /\ DetailUnmounted
    /\ localStorage = << >>

NextLimiter ==
    \/ \E identifier \in Identifiers : isAllowed(identifier)
    \/ \E identifier \in Identifiers : reset(identifier)
    \/ TickClock

SpecLimiter == InitLimiter /\ [][NextLimiter]_vars

(* ========================= dashboard: edit ============================= *)
\* the PUT requests one dashboard sends in a run
MaxSaves == 1

\* JavaScript values of a product field or form field: a number (price in
\* cents, stock in units), a string, or null
Num(n) == << "number", n >>
Str(s) == << "string", s >>
Null == << "null", 0 >>
\* value || ''
OrEmpty(value) == IF value \in { Num(0), Str(<< >>), Null } THEN Str(<< >>) ELSE value

\* the products GET /api/admin/dashboard returns: the first test product
\* with every price, stock and description, and the second test product
DashboardProducts ==
    { << [id |-> 1, title |-> Str(<< "T", "1" >>), description |-> d, price |-> Num(pr),
          stock |-> Num(st), category |-> Str(<< "F", "o", "o", "d" >>),
          image_url |-> Str(<< "u", "1" >>)],
         [id |-> 2, title |-> Str(<< "T", "2" >>), description |-> Str(<< "d", "2" >>),
          price |-> Num(1999), stock |-> Num(5), category |-> Str(<< "T", "o", "y", "s" >>),
          image_url |-> Str(<< "u", "2" >>)] >> :
        d \in { Null, Str(<< "d", "1" >>) }, pr \in { 0, 2999 }, st \in { 0, 10 } }

\* the values typed into the edit form (an input hands over a string)
EditFormValues(f) ==
    CASE f = "name" -> { Str(<< "N", "e", "w" >>) }
      [] f = "price" -> { Str(<< "3", "5", ".", "9", "9" >>) }
      [] f = "stock" -> { Str(<< "1", "5" >>) }
      [] OTHER -> {}

\* mutant: the form is opened empty
handleEditProduct_blankForm(product) ==
    /\ dashboard.editingProduct = << >>
    /\ \E i \in 1..Len(dashboard.products) : dashboard.products[i] = product
    /\ dashboard' = [dashboard EXCEPT !.editingProduct = << product >>,
                                      !.editForm = EmptyEditForm]
    /\ UNCHANGED << listingVars, now, arg, res, cartLog, voteVars, showFilters, checkoutVars,
                    clock, limiterVars, putRequests, detailVars, localStorage >>

\* Dashboard.jsx:67-77 and 346: the edit button of a product row
handleEditProduct(product) ==
    /\ dashboard.editingProduct = << >>
    /\ \E i \in 1..Len(dashboard.products) : dashboard.products[i] = product
    /\ dashboard' = [dashboard EXCEPT
          !.editingProduct = << product >>,
          !.editForm = [name |-> OrEmpty(product.title),
                        description |-> OrEmpty(product.description),
                        price |-> OrEmpty(product.price),
                        stock |-> OrEmpty(product.stock),
                        category |-> OrEmpty(product.category),
                        image_url |-> OrEmpty(product.image_url)]]
    /\ UNCHANGED << listingVars, now, arg, res, cartLog, voteVars, showFilters, checkoutVars,
                    clock, limiterVars, putRequests, detailVars, localStorage >>

\* Dashboard.jsx:79-85: a field of the open form is edited
handleEditFormChange(name, value) ==
    /\ dashboard.editingProduct # << >>
    /\ name \in EditFormFields
    /\ dashboard' = [dashboard EXCEPT !.editForm = [dashboard.editForm EXCEPT ![name] = value]]
    /\ UNCHANGED << listingVars, now, arg, res, cartLog, voteVars, showFilters, checkoutVars,
                    clock, limiterVars, putRequests, detailVars, localStorage >>

\* Dashboard.jsx:87-92: Save Changes sends the form with PUT /api/products/{id}
handleSaveEdit ==
    /\ dashboard.editingProduct # << >>
    /\ Len(putRequests) < MaxSaves
    /\ putRequests' = Append(putRequests, [id |-> dashboard.editingProduct[1].id,
                                           body |-> dashboard.editForm, status |-> "pending"])
    /\ UNCHANGED << listingVars, now, arg, res, cartLog, voteVars, showFilters, checkoutVars,
                    clock, limiterVars, dashboard, detailVars, localStorage >>

\* the dashboard data once the server has stored the body of a PUT
ApplyUpdate(list, id, body) ==
    [i \in 1..Len(list) |->
        IF list[i].id = id
        THEN [id |-> id, title |-> body.name, description |-> body.description,
              price |-> body.price, stock |-> body.stock, category |-> body.category,
              image_url |-> body.image_url]
        ELSE list[i]]

\* Dashboard.jsx:94-106: the PUT is answered with a message; the dashboard
\* data is fetched again and the dialog closed
SaveSucceeds(i) ==
    /\ i \in 1..Len(putRequests) /\ putRequests[i].status = "pending"
    /\ putRequests' = [putRequests EXCEPT ![i].status = "ok"]
    /\ dashboard' = [products |-> ApplyUpdate(dashboard.products, putRequests[i].id,
                                              putRequests[i].body),
                     editingProduct |-> << >>, editForm |-> EmptyEditForm]
    /\ UNCHANGED << listingVars, now, arg, res, cartLog, voteVars, showFilters, checkoutVars,
                    clock, limiterVars, detailVars, localStorage >>

\* Dashboard.jsx:107-111: the PUT fails; the dialog stays open
SaveFails(i) ==
    /\ i \in 1..Len(putRequests) /\ putRequests[i].status = "pending"
    /\ putRequests' = [putRequests EXCEPT ![i].status = "failed"]
    /\ UNCHANGED << listingVars, now, arg, res, cartLog, voteVars, showFilters, checkoutVars,
                    clock, limiterVars, dashboard, detailVars, localStorage >>

\* Dashboard.jsx:114-124: Cancel closes the dialog
handleCancelEdit ==
    /\ dashboard.editingProduct # << >>
    /\ dashboard' = [dashboard EXCEPT !.editingProduct = << >>, !.editForm = EmptyEditForm]
    /\ UNCHANGED << listingVars, now, arg, res, cartLog, voteVars, showFilters, checkoutVars,
                    clock, limiterVars, putRequests, detailVars, localStorage >>

\* Dashboard.jsx:33-37: the dashboard data has been loaded
InitDashboard ==
    /\ NotCheckout
    /\ CheckoutUnmounted
    /\ clock = 0
    /\ LimiterUnused
    /\ dashboard \in { [products |-> list, editingProduct |-> << >>, editForm |-> EmptyEditForm] :
                        list \in DashboardProducts }
    /\ putRequests = << >>
    /\ DetailUnmounted
    /\ localStorage = << >>

NextDashboard ==
    \/ \E i \in 1..Len(dashboard.products) : handleEditProduct(dashboard.products[i])
    \/ \E f \in EditFormFields : \E v \in EditFormValues(f) : handleEditFormChange(f, v)
    \/ handleSaveEdit
    \/ \E i \in 1..MaxSaves : SaveSucceeds(i)
    \/ \E i \in 1..MaxSaves : SaveFails(i)
    \/ handleCancelEdit

SpecDashboard == InitDashboard /\ [][NextDashboard]_vars

(* ========================= product detail page ========================= *)
\* the fetchProductDetails calls of a run
MaxLoads == 2
\* ProductDetail.jsx:35-38: the four requests of one call
Resources == { "product", "rating-stats", "comments", "ratings" }

\* ProductDetail.jsx:25-34: the effect of the route id, or the refresh after
\* a vote, rating or comment, starts fetchProductDetails.  A piece of page
\* state holds << n >> once it was set from the answers of call n.
fetchProductDetails ==
    /\ Len(detailFetches) < MaxLoads
    /\ detail' = [detail EXCEPT !.loading = TRUE]
    /\ detailFetches' = Append(detailFetches,
                               [requests |-> [r \in Resources |-> "pending"], settled |-> FALSE])
    /\ UNCHANGED << listingVars, now, arg, res, cartLog, voteVars, showFilters, checkoutVars,
                    clock, limiterVars, dashboardVars, localStorage >>

\* mutant: each answer is stored when it arrives
RequestSucceeds_storesAtOnce(n, r) ==
    /\ n \in 1..Len(detailFetches)
    /\ ~detailFetches[n].settled /\ detailFetches[n].requests[r] = "pending"
    /\ LET requests == [detailFetches[n].requests EXCEPT ![r] = "ok"]
           all == \A q \in Resources : requests[q] = "ok"
           piece == CASE r = "product" -> "product" [] r = "rating-stats" -> "ratingData"
                      [] r = "comments" -> "comments" [] r = "ratings" -> "ratings"
       IN /\ detailFetches' = [detailFetches EXCEPT ![n] = [requests |-> requests, settled |-> all]]
          /\ detail' = IF all
                       THEN [[detail EXCEPT ![piece] = << n >>] EXCEPT
                                !.loading = FALSE, !.error = << >>]
                       ELSE [detail EXCEPT ![piece] = << n >>]
    /\ UNCHANGED << listingVars, now, arg, res, cartLog, voteVars, showFilters, checkoutVars,
                    clock, limiterVars, dashboardVars, localStorage >>

\* ProductDetail.jsx:34-44 and 48-50: a request of call n is answered; with
\* the last of the four answers Promise.all resolves, the four pieces are
\* set, the error is cleared and loading ends
RequestSucceeds(n, r) ==
    /\ n \in 1..Len(detailFetches)
    /\ ~detailFetches[n].settled /\ detailFetches[n].requests[r] = "pending"
    /\ LET requests == [detailFetches[n].requests EXCEPT ![r] = "ok"]
           all == \A q \in Resources : requests[q] = "ok"
       IN /\ detailFetches' = [detailFetches EXCEPT ![n] = [requests |-> requests, settled |-> all]]
          /\ detail' = IF all
                       THEN [product |-> << n >>, ratingData |-> << n >>, comments |-> << n >>,
                             ratings |-> << n >>, loading |-> FALSE, error |-> << >>]
                       ELSE detail
    /\ UNCHANGED << listingVars, now, arg, res, cartLog, voteVars, showFilters, checkoutVars,
                    clock, limiterVars, dashboardVars, localStorage >>

\* ProductDetail.jsx:45-50: a request of call n fails; Promise.all rejects
\* at once, the error is set and loading ends; the other answers of the call
\* are dropped
RequestFails(n, r) ==
    /\ n \in 1..Len(detailFetches)
    /\ ~detailFetches[n].settled /\ detailFetches[n].requests[r] = "pending"
    /\ detailFetches' = [detailFetches EXCEPT
          ![n] = [requests |-> [detailFetches[n].requests EXCEPT ![r] = "failed"],
                  settled |-> TRUE]]
    /\ detail' = [detail EXCEPT !.error = << "Failed to load product details" >>,
                                !.loading = FALSE]
    /\ UNCHANGED << listingVars, now, arg, res, cartLog, voteVars, showFilters, checkoutVars,
                    clock, limiterVars, dashboardVars, localStorage >>

\* ProductDetail.jsx:11-16: the page as constructed
InitDetail ==
    /\ NotCheckout
    /\ PagesUnmounted

NextDetail ==
    \/ fetchProductDetails
    \/ \E n \in 1..MaxLoads, r \in Resources : RequestSucceeds(n, r)
    \/ \E n \in 1..MaxLoads, r \in Resources : RequestFails(n, r)

SpecDetail == InitDetail /\ [][NextDetail]_vars

(* ========================= overlapping fetches ========================= *)
\* the fetchProducts calls in flight at one time
MaxFetches == 2

\* ItemProductList.jsx:24-32: the props change while earlier fetchProducts
\* calls may still be waiting; each call keeps the category and the search
\* term of the render that started it
StartOverlappingFetch(cat, q) ==
    /\ << cat, q >> \in PropsValues
    /\ << cat, q >> # << category, searchTerm >>
    /\ Cardinality(fetches) < MaxFetches
    /\ LET f == [phase |-> "products", category |-> cat, searchTerm |-> q, list |-> << >>]
       IN /\ f \notin fetches
          /\ fetches' = fetches \cup { f }
    /\ category' = cat
    /\ searchTerm' = q
    /\ loading' = TRUE
    /\ UNCHANGED << lastFilterOp, products, productRatings, error, selectedCategories, selectedOwners,
                    selectedBadges, selectedRatingRanges, filteredProducts,
                    allBadges, now, arg, res, otherVars >>

NextOverlap ==
    \/ \E pv \in PropsValues : StartOverlappingFetch(pv[1], pv[2])
    \/ \E f \in fetches : ProductsResponse(f)
    \/ \E f \in fetches : ProductsFailure(f)
    \/ \E f \in fetches, failed \in { {} } \cup { { Catalogue[i].id } : i \in 1..Len(Catalogue) } :
          RatingsResponse(f, failed)

SpecOverlap == Init /\ [][NextOverlap]_vars

(* ============================== mock cart ============================== *)
\* the largest quantity of a cart entry
MaxQuantity == 3
\* the values of Math.random() between two milliseconds
RandomSteps == 2
MockProductIds == { 1, 2 }

\* mockData.js:82-97: getMockCart / setMockCart, the parsed stored list
getMockCart == localStorage
\* Array.prototype.find on product_id / on id: the first index, or 0
FindProduct(cart, productId) ==
    IF \E i \in 1..Len(cart) : cart[i].product_id = productId
    THEN CHOOSE i \in 1..Len(cart) :
            cart[i].product_id = productId /\ \A j \in 1..(i - 1) : cart[j].product_id # productId
    ELSE 0
FindItem(cart, itemId) ==
    IF \E i \in 1..Len(cart) : cart[i].id = itemId
    THEN CHOOSE i \in 1..Len(cart) : cart[i].id = itemId /\ \A j \in 1..(i - 1) : cart[j].id # itemId
    ELSE 0

\* mockData.js:99-116: addToMockCart(productId, quantity); random is the
\* draw of Math.random(), the id of a new entry Date.now() + Math.random()
addToMockCart(productId, quantity, random) ==
    /\ random \in 0..(RandomSteps - 1)
    /\ LET cart == getMockCart
           existingItem == FindProduct(cart, productId)
       IN IF existingItem # 0
          THEN /\ cart[existingItem].quantity + quantity <= MaxQuantity
               /\ localStorage' = [cart EXCEPT ![existingItem].quantity = @ + quantity]
          ELSE localStorage' = Append(cart, [id |-> clock * RandomSteps + random,
                                             product_id |-> productId, quantity |-> quantity])
    /\ UNCHANGED << listingVars, now, arg, res, cartLog, voteVars, showFilters, checkoutVars,
                    clock, limiterVars, dashboardVars, detailVars >>

\* mockData.js:118-123: removeMockCartItem(itemId)
removeMockCartItem(itemId) ==
    /\ LET Kept(item) == item.id # itemId
       IN localStorage' = SelectSeq(getMockCart, Kept)
    /\ UNCHANGED << listingVars, now, arg, res, cartLog, voteVars, showFilters, checkoutVars,
                    clock, limiterVars, dashboardVars, detailVars >>

\* mockData.js:125-133: updateMockCartItem(itemId, quantity)
updateMockCartItem(itemId, quantity) ==
    /\ LET cart == getMockCart
           item == FindItem(cart, itemId)
       IN localStorage' = IF item # 0 THEN [cart EXCEPT ![item].quantity = quantity] ELSE cart
    /\ UNCHANGED << listingVars, now, arg, res, cartLog, voteVars, showFilters, checkoutVars,
                    clock, limiterVars, dashboardVars, detailVars >>

\* nothing is stored yet
InitMockCart ==
    /\ NotCheckout
    /\ PagesUnmounted

ItemIds == 0..(MaxClock * RandomSteps + RandomSteps - 1)

NextMockCart ==
    \/ \E p \in MockProductIds, q \in 1..2, r \in 0..(RandomSteps - 1) : addToMockCart(p, q, r)
    \/ \E id \in ItemIds : removeMockCartItem(id)
    \/ \E id \in ItemIds, q \in 0..MaxQuantity : updateMockCartItem(id, q)
    \/ TickClock

SpecMockCart == InitMockCart /\ [][NextMockCart]_vars

(* ======================= properties of the helpers ===================== *)
\* the stats of the call, when present
ArgStats == arg.ratingData[1]
HasStats == arg.ratingData # << >>
Rated == HasStats /\ ArgStats.rating_count > 0
Clamp(lo, hi, x) == IF x < lo THEN lo ELSE IF x > hi THEN hi ELSE x

\* C2: with rating_count > 0, displayRating is
\* clamp(average_rating + 0.5 * ((s - 5.5) / 4.5), 0, 5) for the normalised
\* sentiment s, the sentiment term being 0 when s is undefined; the result
\* is in [0, 5]; average 4.5 with sentiment 8.2 gives 4.8.
C2_CombinedRatingFormula ==
    (res.op = "calculateCombinedRating" /\ Rated) =>
        LET s == normalizeSentiment(ArgStats.average_sentiment)
            \* 1800 * 0.5 * ((s/20 - 5.5) / 4.5) = 10 * (s - 110)
            term == IF s = << >> THEN 0 ELSE 10 * (s[1] - 110)
        IN /\ res.val.displayRating = Clamp(0, 5 * 1800, 18 * ArgStats.average_rating[1] + term)
           /\ res.val.displayRating \in 0..(5 * 1800)
           /\ (ArgStats.average_rating = << 450 >> /\ ArgStats.average_sentiment = << 82 >>)
                 => res.val.displayRating * 10 = 48 * 1800

C2_Witness ==
    /\ res.op = "calculateCombinedRating" /\ Rated
    /\ ArgStats.average_rating = << 450 >> /\ ArgStats.average_sentiment = << 82 >>
    /\ res.val.displayRating = 8640

\* C3 (as claimed, for an average_sentiment on the 1-10 scale): the badge is
\* the first match of: average_sentiment >= 8.0 "Most Favourite", >= 6.5
\* "Popular among {category}", >= 4.5 "Try Me", else the recency rule or
\* "Pet Favorite".
C3_FirstMatchOnAverageSentiment ==
    (res.op = "computeBadge" /\ HasStats) =>
        LET s == ArgStats.average_sentiment
            onScale == IsNum(s) /\ s[1] >= 10 /\ s[1] <= 100
        IN /\ (onScale /\ s[1] >= 80) => res.val = MostFavourite
           /\ (onScale /\ s[1] >= 65 /\ s[1] < 80) => res.val = PopularAmong(arg.product.category)
           /\ (onScale /\ s[1] >= 45 /\ s[1] < 65) => res.val = TryMe
           /\ ((onScale /\ s[1] < 45) \/ ~IsNum(s)) => res.val \in { NotRated, PetFavorite }

\* C4: with stats missing or rating_count = 0, calculateCombinedRating gives
\* stars 0, displayRating 0, hasRatings false, and the card shows
\* "No ratings yet" with no numeric label.
C4_NoRatingsDisplay ==
    (res.op = "card" /\ ~Rated) =>
        /\ res.val.combined.stars = 0
        /\ res.val.combined.displayRating = 0
        /\ res.val.combined.hasRatings = FALSE
        /\ res.val.rating.kind = "No ratings yet"
        /\ res.val.rating.label = << >>

C4_Witness ==
    /\ res.op = "card" /\ HasStats /\ ArgStats.rating_count = 0
    /\ ArgStats.comment_count > 0
    /\ res.val.rating.kind = "No ratings yet"

\* C6 (as claimed, for sentiments on the 1-10 scale): with average_rating
\* and rating_count > 0 fixed, a larger average_sentiment never gives a
\* smaller combined rating.
C6_MonotonicInSentiment ==
    (res.op = "calculateCombinedRating" /\ Rated /\ IsNum(ArgStats.average_sentiment)
       /\ ArgStats.average_sentiment[1] >= 10) =>
        \A s2 \in { v \in SentVals : v >= ArgStats.average_sentiment[1] /\ v <= 100 } :
            calculateCombinedRating(<< [ArgStats EXCEPT !.average_sentiment = << s2 >>] >>).displayRating
               >= res.val.displayRating

\* no sentiment threshold rule of computeBadge matches
NoThresholdMatch ==
    LET n == normalizeSentiment(IF HasStats THEN ArgStats.average_sentiment ELSE << >>)
    IN n = << >> \/ n[1] < 90
NoServerLabel == ~HasStats \/ ArgStats.badge_label = << >>
Recent == IsNum(arg.product.created_at) /\ now - arg.product.created_at[1] < 14

\* C7 (as claimed): when no threshold rule matches, the badge is
\* "Not rated / Recently added" exactly when comment_count = 0 and the
\* product is less than 14 days old, "Pet Favorite" otherwise.
C7_RecencyByCommentCount ==
    (res.op = "computeBadge" /\ NoServerLabel /\ NoThresholdMatch) =>
        res.val = IF (~HasStats \/ ArgStats.comment_count = 0) /\ Recent
                  THEN NotRated ELSE PetFavorite

\* C7 (amended): without a server label and with no threshold rule matching,
\* the badge is "Not rated / Recently added" exactly when rating_count = 0
\* (or the stats are absent) and the product was created less than 14 days
\* ago, "Pet Favorite" otherwise.
C7_RecencyByRatingCount ==
    (res.op = "computeBadge" /\ NoServerLabel /\ NoThresholdMatch) =>
        res.val = IF (~HasStats \/ ArgStats.rating_count = 0) /\ Recent
                  THEN NotRated ELSE PetFavorite

C7_Witness ==
    /\ res.op = "computeBadge" /\ HasStats /\ ArgStats.badge_label = << >>
    /\ ArgStats.rating_count = 0 /\ ArgStats.comment_count > 0
    /\ ArgStats.average_sentiment = << 20 >>
    /\ arg.product.created_at = << -3 >>
    /\ res.val = NotRated

\* C8: for a product without comments (average_sentiment undefined,
\* comment_count = 0) the badge is "Not rated / Recently added" or
\* "Pet Favorite" and the combined rating is the plain average_rating.
C8_NoCommentsNoSentiment ==
    (HasStats /\ ArgStats.average_sentiment = << >> /\ ArgStats.comment_count = 0) =>
        /\ res.op = "computeBadge" => res.val \in { NotRated, PetFavorite }
        /\ res.op = "card" => res.val.badgeText \in { NotRated, PetFavorite }
        /\ (res.op = "calculateCombinedRating" /\ Rated)
              => res.val.displayRating = 18 * ArgStats.average_rating[1]

C8_Witness ==
    /\ HasStats /\ ArgStats.average_sentiment = << >> /\ ArgStats.comment_count = 0
    /\ ArgStats.badge_label = << >> /\ ArgStats.rating_count > 0
    /\ res.op = "computeBadge" /\ res.val = PetFavorite

\* C9: each bucket tests only rating_count and the raw average_rating:
\* "no ratings" iff count = 0 or no stats; "4.5-5.0" iff count > 0 and
\* average >= 4.5; "4.0-4.49" iff 4.0 <= average < 4.5; "3.0-3.99" iff
\* 3.0 <= average < 4.0; "0-2.99" iff average < 3.0.
C9_BucketPredicates ==
    res.op = "RATING_BUCKETS" =>
        LET a == ArgStats.average_rating[1]
        IN /\ ("no" \in res.val) <=> ~Rated
           /\ ("45_5" \in res.val) <=> (Rated /\ a >= 450)
           /\ ("4_449" \in res.val) <=> (Rated /\ a >= 400 /\ a < 450)
           /\ ("3_399" \in res.val) <=> (Rated /\ a >= 300 /\ a < 400)
           /\ ("0_299" \in res.val) <=> (Rated /\ a < 300)

\* a rated product whose display rating is above 4.5 while its raw average
\* is below: the bucket follows the raw average
C9_Witness ==
    /\ res.op = "RATING_BUCKETS" /\ Rated
    /\ ArgStats.average_rating = << 449 >>
    /\ calculateCombinedRating(arg.ratingData).displayRating > 450 * 18
    /\ res.val = { "4_449" }

\* C11: for a rated product the stars are the combined rating rounded to the
\* nearest 0.5: a multiple of 0.5 in [0, 5], at most 0.25 from the combined
\* rating; the combined rating itself stays unrounded (the clamped sum) and
\* is the value the numeric label formats, not the stars.
C11_StarsSnapToHalf ==
    (res.op = "card" /\ Rated) =>
        LET c == res.val.combined
            s == normalizeSentiment(ArgStats.average_sentiment)
            term == IF s = << >> THEN 0 ELSE 10 * (s[1] - 110)
        IN /\ c.stars \in { 900 * k : k \in 0..10 }
           /\ c.stars - c.displayRating \in -450..450
           /\ \A k \in 0..10 : (900 * k - c.displayRating \in -449..449) => c.stars = 900 * k
           /\ c.displayRating = Clamp(0, 5 * 1800, 18 * ArgStats.average_rating[1] + term)
           /\ res.val.rating.kind = "stars"
           /\ res.val.rating.stars = c.stars
           /\ res.val.rating.label = << toFixed1(c.displayRating) >>

\* 4.0 with sentiment 8.0 is 4.28: 4.5 stars, label 4.3 (not 4.5)
C11_Witness ==
    /\ res.op = "card" /\ Rated
    /\ ArgStats.average_rating = << 400 >> /\ ArgStats.average_sentiment = << 80 >>
    /\ res.val.combined.displayRating = 7700
    /\ res.val.combined.stars = 8100
    /\ res.val.rating.label = << 43 >>

\* C12 (as claimed): a missing sentiment gives null; a value on the 1-10
\* scale is returned unchanged and a value outside it is clamped into
\* [1, 10]; a polarity p in [-1, 1] below the scale gives 5.5 + 4.5 * p; the
\* result is never outside [1, 10].
C12_NormalizeSentiment ==
    res.op = "normalizeSentiment" =>
        LET s == IF HasStats THEN ArgStats.average_sentiment ELSE << >>
        IN /\ ~IsNum(s) => res.val = << >>
           /\ (IsNum(s) /\ s[1] >= 10 /\ s[1] <= 100) => res.val = << 2 * s[1] >>
           /\ (IsNum(s) /\ s[1] > 100) => res.val = << 200 >>
           /\ (IsNum(s) /\ s[1] >= -10 /\ s[1] < 10) => res.val = << 110 + 9 * s[1] >>
           /\ IsNum(res.val) => res.val[1] \in 20..200

(* ===================== properties of add to cart ======================= *)
\* C13: whenever the add-to-cart control of a product with stock 0 is
\* activated, onAddToCart is not called, whatever the ratings, the badge and
\* the active selections are; the control of such a card is disabled.
C13_OutOfStockNeverAdded ==
    /\ cartLog # << >> =>
          (cartLog[1].product.stock = 0 => ~cartLog[1].onAddToCart)
    /\ \A i \in 1..Len(filteredProducts) :
          filteredProducts[i].stock = 0 => getStockState(filteredProducts[i]).disableCart

\* the out-of-stock product's control was activated under an active filter
C13_Witness ==
    /\ cartLog # << >> /\ cartLog[1].product.stock = 0
    /\ ~cartLog[1].onAddToCart
    /\ GridShown /\ activeFiltersCount > 0
    /\ cartLog[1].product \in { filteredProducts[i] : i \in 1..Len(filteredProducts) }

(* ======================== properties of the votes ====================== *)
\* the rows of a (comment, voter) pair and the answers given to the pair
VoteRows(c, v) ==
    { i \in 1..Len(product_comment_vote) :
        product_comment_vote[i].comment_id = c /\ product_comment_vote[i].user_name = v }
VoteAnswers(c, v, status) ==
    { a \in voteResponses :
        a.request.comment_id = c /\ a.request.user_name = v /\ a.status = status }
\* the comment's count of up votes
UpCount(c) ==
    Cardinality({ i \in 1..Len(product_comment_vote) :
                    product_comment_vote[i].comment_id = c /\ product_comment_vote[i].value = 1 })

\* C14: whatever the order in which vote requests are sent and handled, a
\* (comment, voter) pair has at most one vote row; the first request of a
\* pair that is handled succeeds, also when other voters already voted on
\* the comment, every later one is answered with a conflict and leaves the
\* recorded vote as it was, so the comment's up count is the number of
\* voters whose up vote succeeded.
C14_OneVotePerCommentAndVoter ==
    /\ \A c \in Comments, v \in Voters :
          /\ Cardinality(VoteRows(c, v)) <= 1
          /\ Cardinality(VoteAnswers(c, v, "ok")) = Cardinality(VoteRows(c, v))
          /\ VoteAnswers(c, v, "conflict") # {} => Cardinality(VoteAnswers(c, v, "ok")) = 1
          /\ \A a \in VoteAnswers(c, v, "ok") : \A i \in VoteRows(c, v) :
                product_comment_vote[i].value = VoteValue(a.request.direction)
    /\ \A c \in Comments :
          UpCount(c) = Cardinality({ v \in Voters :
                          \E a \in VoteAnswers(c, v, "ok") : a.request.direction = "up" })

\* X voted up on comment 7 twice and Anonymous once: one conflict for X,
\* both voters hold a vote, and X counts once
C14_Witness ==
    /\ \E a \in VoteAnswers(7, "X", "ok") : a.request.direction = "up"
    /\ \E a \in VoteAnswers(7, "X", "conflict") : a.request.direction = "up"
    /\ VoteAnswers(7, "Anonymous", "ok") # {}
    /\ Cardinality(VoteRows(7, "X")) = 1
    /\ Cardinality(VoteRows(7, "Anonymous")) = 1

(* ======================= properties of the listing ===================== *)
SetOf(seq) == { seq[i] : i \in 1..Len(seq) }
\* seq is sub with some elements removed, order kept
IsSubsequence(sub, seq) ==
    \E pick \in SUBSET (1..Len(seq)) :
        LET Keep(p) == \E i \in pick : seq[i] = p IN sub = SelectSeq(seq, Keep)

MatchesDimension(sel, matched(_)) == sel = {} \/ \E v \in sel : matched(v)

\* C1: a product is visible exactly when every dimension with a non-empty
\* selection has a selected value that the product matches (OR within a
\* dimension, AND across dimensions); an empty selection does not restrict.
\* The badge of a product is its badge on the day t the list was computed.
C1_VisibleIffAllDimensionsMatch ==
    /\ IsSubsequence(filteredProducts, products)
    /\ \E t \in 0..now : \A i \in 1..Len(products) :
         LET p == products[i]
             rd == Rd(productRatings, p.id)
             IsCategory(v) == p.category = v
             IsOwner(v) == ownerName(p) = v
             IsBadge(v) == computeBadge(p, rd, t) = v
             InBucket(v) == BucketTest(v, rd)
         IN (p \in SetOf(filteredProducts)) <=>
              /\ MatchesDimension(selectedCategories, IsCategory)
              /\ MatchesDimension(selectedOwners, IsOwner)
              /\ MatchesDimension(selectedBadges, IsBadge)
              /\ MatchesDimension(selectedRatingRanges, InBucket)

\* two dimensions restrict at once: only product 1 passes both
C1_Witness ==
    /\ GridShown /\ Len(products) = 3
    /\ selectedOwners # {} /\ selectedRatingRanges # {}
    /\ lastFilterOp = "toggle"
    /\ Len(filteredProducts) = 1

\* C5: with all four selections empty the visible list is the product list,
\* same members, same order; clearAllFilters always leads to such a state.
C5_EmptySelectionShowsAll ==
    /\ [](activeFiltersCount = 0 => filteredProducts = products)
    /\ [][clearAllFilters => (activeFiltersCount' = 0 /\ filteredProducts' = products')]_vars

C5_Witness ==
    /\ lastFilterOp = "clear" /\ activeFiltersCount = 0
    /\ Len(products) = 3 /\ filteredProducts = products

\* the values a selection can hold, per dimension
CategoryValues == { Toys, Food }
OwnerValues == { ownerName(Catalogue[i]) : i \in 1..Len(Catalogue) }
BadgeValues == { MostFavourite, TryMe, NotRated, PetFavorite, PopularAmong(Food) }
BucketKeys == { RATING_BUCKETS[i] : i \in 1..Len(RATING_BUCKETS) }

\* the filter of day t with the selection of one dimension replaced
FilterWith(dim, sel, t) ==
    SetOf(filterProducts(products, productRatings,
            IF dim = 1 THEN sel ELSE selectedCategories,
            IF dim = 2 THEN sel ELSE selectedOwners,
            IF dim = 3 THEN sel ELSE selectedBadges,
            IF dim = 4 THEN sel ELSE selectedRatingRanges, t))
DimValues(dim) ==
    CASE dim = 1 -> CategoryValues [] dim = 2 -> OwnerValues
      [] dim = 3 -> BadgeValues [] dim = 4 -> BucketKeys
DimSelection(dim) ==
    CASE dim = 1 -> selectedCategories [] dim = 2 -> selectedOwners
      [] dim = 3 -> selectedBadges [] dim = 4 -> selectedRatingRanges

\* C10: in each dimension, filtering with {A, B} gives the union of
\* filtering with {A} and with {B}, the other selections being the same.
C10_UnionWithinDimension ==
    \A dim \in 1..4 :
        LET single == [v \in DimValues(dim) |-> FilterWith(dim, { v }, now)]
        IN \A AB \in { S \in SUBSET DimValues(dim) : Cardinality(S) = 2 } :
             /\ FilterWith(dim, AB, now) = UNION { single[v] : v \in AB }
             /\ (DimSelection(dim) = AB)
                   => \E t \in 0..now :
                         SetOf(filteredProducts) = UNION { FilterWith(dim, { v }, t) : v \in AB }

\* two buckets selected, each contributing its own product
C10_Witness ==
    /\ GridShown /\ Len(products) = 3
    /\ selectedRatingRanges = { "no", "4_449" }
    /\ Len(filteredProducts) = 2
    /\ FilterWith(4, { "no" }, now) # {} /\ FilterWith(4, { "4_449" }, now) # {}
    /\ FilterWith(4, { "no" }, now) # FilterWith(4, { "4_449" }, now)

\* the list the last completed fetch asked for
ListOfProps == FetchedList(Catalogue, category, searchTerm)

\* C15: once a fetch has completed with its product list loaded, the
\* listing is not in the error state and shows the whole list (all of it
\* when nothing is selected); a product whose stats request failed has no
\* entry in the rating map and is treated as unrated: "No ratings yet", no
\* stars, only the "no ratings" bucket, the client's fallback badge; every
\* other product of the list has its own stats as the server sent them.
C15_StatsFailureIsNoRatings ==
    (~loading /\ products # << >>) =>
        /\ error = << >>
        /\ products = ListOfProps
        /\ activeFiltersCount = 0 => filteredProducts = products
        /\ \A i \in 1..Len(products) :
              LET p == products[i]
                  rd == Rd(productRatings, p.id)
              IN /\ rd = << >> =>
                       /\ RatingDisplay(rd) = [kind |-> "No ratings yet", stars |-> 0, label |-> << >>]
                       /\ calculateCombinedRating(rd).hasRatings = FALSE
                       /\ { k \in BucketKeys : BucketTest(k, rd) } = { "no" }
                       /\ computeBadge(p, rd, now) =
                             IF IsNum(p.created_at) /\ now - p.created_at[1] < 14
                             THEN NotRated ELSE PetFavorite
                 /\ rd # << >> => \E t \in 0..now : rd[1] = RatingStatsResponse(p, t)
        /\ Cardinality({ i \in 1..Len(products) : Rd(productRatings, products[i].id) = << >> }) <= 1

\* the stats request of product 1 failed: its card is unrated, products 2
\* and 3 keep their stats and all three are shown
C15_Witness ==
    /\ GridShown /\ Len(products) = 3 /\ filteredProducts = products
    /\ Rd(productRatings, 1) = << >>
    /\ Rd(productRatings, 2) # << >> /\ Rd(productRatings, 3) # << >>
    /\ computeBadge(products[1], << >>, now) = PetFavorite
    /\ computeBadge(products[2], Rd(productRatings, 2), now) = PopularAmong(Food)

\* the values of a dimension that some product of the list has on day t
PresentValues(dim, t) ==
    CASE dim = 1 -> allCategories [] dim = 2 -> allOwners
      [] dim = 3 -> ComputeAllBadges(products, productRatings, t)

filterInputs ==
    << products, productRatings, selectedCategories, selectedOwners, selectedBadges,
       selectedRatingRanges >>

\* C18: in every state the visible list is the filter of the current
\* product list, rating map and four selections (with the badges of the day
\* t it was computed), a part of the product list in the list's order;
\* every step that changes one of these inputs, and every step that changes
\* the visible list, ends with the visible list computed from the inputs of
\* its end state.
C18_VisibleListIsCurrentFilter ==
    /\ [](/\ \E t \in 0..now :
               filteredProducts = filterProducts(products, productRatings, selectedCategories,
                                    selectedOwners, selectedBadges, selectedRatingRanges, t)
          /\ IsSubsequence(filteredProducts, products))
    /\ [][(filterInputs' # filterInputs \/ filteredProducts' # filteredProducts) =>
              filteredProducts' = filterProducts(products', productRatings', selectedCategories',
                                    selectedOwners', selectedBadges', selectedRatingRanges', now')]_vars

\* the owner "bob" was selected on the full list and the list was then
\* fetched again for "toys": the visible list follows the new list
C18_Witness ==
    /\ GridShown /\ category = << "t", "o", "y", "s" >>
    /\ selectedOwners = { << "b", "o", "b" >> }
    /\ Len(products) = 1 /\ filteredProducts = << >>

(* ===================== properties from end to end ====================== *)
\* C20: the product with the ratings 4, 5, 5 and two comments scored 9.0 and
\* 8.0 has average_rating 4.67 (3 ratings) and average_sentiment 8.5
\* (2 comments); its badge is "Most Favourite", from the server's label and
\* from the client's classifier alike; its combined rating is 5.0, shown as
\* 5.0 stars with the label 5.0.
C20_ScenarioMostFavourite ==
    (arg.ratingData # << >> /\ arg.ratings = << 4, 5, 5 >> /\ arg.sentiments = << 90, 80 >>) =>
        /\ ArgStats.average_rating = << 467 >> /\ ArgStats.rating_count = 3
        /\ ArgStats.average_sentiment = << 85 >> /\ ArgStats.comment_count = 2
        /\ ArgStats.badge_label = MostFavourite
        /\ res.op = "computeBadge" => res.val = MostFavourite
        /\ computeBadge(arg.product, << [ArgStats EXCEPT !.badge_label = << >>] >>, now) = MostFavourite
        /\ res.op = "calculateCombinedRating" =>
              (res.val.displayRating = 5 * 1800 /\ res.val.stars = 5 * 1800)
        /\ res.op = "card" =>
              /\ res.val.badgeText = MostFavourite
              /\ res.val.combined.displayRating = 5 * 1800
              /\ res.val.rating = [kind |-> "stars", stars |-> 5 * 1800, label |-> << 50 >>]

C20_Witness ==
    /\ arg.ratings = << 4, 5, 5 >> /\ arg.sentiments = << 90, 80 >>
    /\ arg.ratingData # << >> /\ ArgStats.average_rating = << 467 >>
    /\ res.op = "card" /\ res.val.badgeText = MostFavourite
    /\ res.val.rating.stars = 9000

(* ==================== properties of the owner value ==================== *)
\* the label made from the owner id
OwnerIdLabel(p) ==
    IF p.owner_uid = << >> THEN << "O", "w", "n", "e", "r" >>
    ELSE << "U", "s", "e", "r", " " >>
           \o [i \in 1..Min(6, Len(p.owner_uid)) |->
                 p.owner_uid[Len(p.owner_uid) - Min(6, Len(p.owner_uid)) + i]]

\* C19: the owner value of a product is the first non-empty of its name
\* (owner_name, then owner_display_name), its owner handle, and the label
\* made from its owner id; a later one is used only when all earlier ones
\* are empty.  Every product has exactly one, non-empty, owner value: it is
\* an owner option, and under an owner selection the product is visible
\* exactly when that value is selected.
C19_OwnerIsFirstNonEmpty ==
    /\ \A i \in 1..Len(products) :
          LET p == products[i]
              o == ownerName(p)
              chain == << p.owner_name, p.owner_display_name, p.owner, OwnerIdLabel(p) >>
              first == CHOOSE k \in 1..4 : chain[k] # << >> /\ \A j \in 1..(k - 1) : chain[j] = << >>
          IN /\ o = chain[first]
             /\ o # << >>
             /\ o \in allOwners
             /\ (selectedOwners # {}) =>
                   ((\E j \in 1..Len(filteredProducts) : filteredProducts[j] = p) <=> o \in selectedOwners)
    /\ Cardinality(allOwners) <= Len(products)

\* one product known by its handle only, one by its id only, the latter
\* selected
C19_Witness ==
    /\ Len(products) = 2
    /\ products[1].owner_name = << >> /\ products[1].owner_display_name = << >>
    /\ products[1].owner = << "b", "o", "b" >> /\ products[1].owner_uid = << "u", "1" >>
    /\ products[2].owner_name = << >> /\ products[2].owner_display_name = << >>
    /\ products[2].owner = << >>
    /\ selectedOwners = { << "U", "s", "e", "r", " ", "e", "r", "1", "2", "3", "4" >> }
    /\ filteredProducts = << products[2] >>

(* ================= properties of the rendered listing ================== *)
\* C17 (as claimed): after every render of the grid, the label on a
\* product's card is the badge it is filtered by and an offered badge
\* option: under a non-empty badge selection every visible product shows a
\* selected badge and, the other selections being empty, every product
\* showing a selected badge is visible; also when the fallback badge changes
\* at the 14-day line.
C17_FilterBadgeIsDisplayedBadge ==
    [][(now' = now /\ GridShown') =>
          \A i \in 1..Len(products') :
              LET p == products'[i]
                  badgeText == computeBadge(p, Rd(productRatings', p.id), now')
                  visible == \E j \in 1..Len(filteredProducts') : filteredProducts'[j] = p
              IN /\ (selectedBadges' # {} /\ visible) => badgeText \in selectedBadges'
                 /\ (selectedBadges' # {} /\ selectedCategories' = {} /\ selectedOwners' = {}
                       /\ selectedRatingRanges' = {} /\ badgeText \in selectedBadges') => visible
                 /\ badgeText \in allBadges']_vars

(* ===================== properties of the checkout ====================== *)
\* the field holds a character that is not white space
NonBlank(str) == \E i \in 1..Len(str) : str[i] \notin WhiteSpace
\* the typed phone numbers that match the phone pattern once spaces, dashes
\* and brackets are dropped: an optional +, a digit 1-9, up to 15 digits
PhonesMatching ==
    { << "1", "2", "3", "4", "5", "6", "7", "8", "9", "0" >>,
      << "+", "1", " ", "(", "5", "5", "5", ")", " ", "1", "2", "3", "-", "4", "5", "6", "7" >>,
      << "1", "2", "3", "4", "5", "6", "7", "8", "9", "0", "1", "2", "3", "4", "5", "6" >> }
\* the typed postal codes that are a US ZIP (5 digits or ZIP+4) or a
\* Canadian postal code (A1A 1A1), in either case and with spaces around
PostalsValid ==
    { << "1", "0", "0", "0", "1" >>,
      << "1", "2", "3", "4", "5", "-", "6", "7", "8", "9" >>,
      << "K", "1", "A", " ", "0", "A", "6" >>,
      << "k", "1", "a", " ", "0", "a", "6" >>,
      << " ", "1", "0", "0", "0", "1", " " >> }
FormIsValid(form) ==
    /\ \A f \in CheckoutFields : NonBlank(form[f])
    /\ form.phone \in PhonesMatching
    /\ form.postalCode \in PostalsValid

OrdersWith(status) == { i \in 1..Len(orderRequests) : orderRequests[i].status = status }

\* C22: a sent order request ends in exactly one of two ways: it succeeds
\* and onOrderComplete is called once with the returned order, or it fails,
\* an error message is shown, onOrderComplete is not called and the form
\* data stays; either way the form leaves the submitting state, which every
\* submission eventually does
C22_OneOutcomePerSubmission ==
    /\ [][\A i \in PendingOrders :
             orderRequests'[i].status # "pending" =>
                /\ ~checkout'.loading
                /\ IF orderRequests'[i].status = "ok"
                   THEN /\ onOrderComplete' = Append(onOrderComplete, OrderResponse(i))
                        /\ checkout'.error = << >>
                   ELSE /\ onOrderComplete' = onOrderComplete
                        /\ checkout'.error # << >>
                        /\ checkout'.form = checkout.form]_vars
    /\ [](Len(onOrderComplete) = Cardinality(OrdersWith("ok")))
    /\ ((PendingOrders # {}) ~> (~checkout.loading /\ PendingOrders = {}))

\* one order failed, the next one of the same dialog succeeded
C22_Witness ==
    /\ Len(orderRequests) = 2
    /\ orderRequests[1].status = "failed"
    /\ orderRequests[2].status = "ok"
    /\ onOrderComplete = << OrderResponse(2) >>
    /\ ~checkout.loading

\* C23: while an order request is in flight the submit button is disabled
\* and cannot start a submission, so a dialog never has two order requests
\* outstanding
C23_OneOrderInFlight ==
    /\ PendingOrders # {} => checkout.loading
    /\ checkout.loading => ~ENABLED handleSubmit
    /\ Cardinality(PendingOrders) <= 1

\* the second order of a dialog is in flight and the form is valid
C23_Witness ==
    /\ PendingOrders = { 2 }
    /\ checkout.loading
    /\ DOMAIN validateForm(checkout.form) = {}

(* =================== properties of the rate limiter ==================== *)
\* the granted isAllowed calls of the log
Granted == { i \in 1..Len(limiterLog) : limiterLog[i].op = "isAllowed" /\ limiterLog[i].allowed }
\* the identifier of call i was reset between the calls i and j
ResetBetween(i, j) ==
    \E k \in (i + 1)..(j - 1) :
        limiterLog[k].op = "reset" /\ limiterLog[k].identifier = limiterLog[i].identifier
\* the granted calls of call j's identifier within the windowMs before it
GrantedInWindow(j) ==
    { i \in Granted : /\ i < j
                      /\ limiterLog[i].identifier = limiterLog[j].identifier
                      /\ limiterLog[j].time - limiterLog[i].time < limiter.windowMs }

\* C24 as stated: a call is denied exactly when maxRequests granted calls of
\* its identifier lie within the preceding windowMs, and no window of length
\* windowMs holds more than maxRequests granted calls of one identifier
C24_AtMostMaxPerWindow ==
    /\ \A j \in 1..Len(limiterLog) :
          limiterLog[j].op = "isAllowed" =>
             (~limiterLog[j].allowed <=> Cardinality(GrantedInWindow(j)) >= limiter.maxRequests)
    /\ \A identifier \in Identifiers, t \in 0..MaxClock :
          Cardinality({ i \in Granted : /\ limiterLog[i].identifier = identifier
                                        /\ limiterLog[i].time >= t
                                        /\ limiterLog[i].time - t < limiter.windowMs })
             <= limiter.maxRequests

\* C24, amended: the granted calls that count are those made since the last
\* reset of the identifier; between two resets of an identifier no window of
\* length windowMs holds more than maxRequests of its granted calls
C24_AtMostMaxPerWindowSinceReset ==
    /\ \A j \in 1..Len(limiterLog) :
          limiterLog[j].op = "isAllowed" =>
             (~limiterLog[j].allowed <=>
                Cardinality({ i \in GrantedInWindow(j) : ~ResetBetween(i, j) })
                   >= limiter.maxRequests)
    /\ \A j \in Granted :
          Cardinality({ i \in GrantedInWindow(j) : ~ResetBetween(i, j) }) < limiter.maxRequests

\* a call was denied, a later call of the same identifier was granted once
\* the window had passed, and the other identifier was granted meanwhile
C24_Witness ==
    \E i, j, k \in 1..Len(limiterLog) :
        /\ i < j /\ i < k
        /\ limiterLog[i].op = "isAllowed" /\ ~limiterLog[i].allowed
        /\ limiterLog[j] = [op |-> "isAllowed", identifier |-> limiterLog[i].identifier,
                            time |-> limiterLog[j].time, allowed |-> TRUE]
        /\ limiterLog[k].op = "isAllowed" /\ limiterLog[k].allowed
        /\ limiterLog[k].identifier # limiterLog[i].identifier
        /\ \A r \in 1..Len(limiterLog) : limiterLog[r].op # "reset"

(* ==================== properties of the dashboard ====================== *)
\* the product field a form field edits
ProductField(product, f) == IF f = "name" THEN product.title ELSE product[f]
\* the same value; null is shown and sent as the empty string
SameValue(v, w) == v = w \/ (v \in { Null, Str(<< >>) } /\ w \in { Null, Str(<< >>) })

\* C25: opening the edit dialog fills every form field with the product's
\* current value, and a save without changes sends these values; this holds
\* for every product, a stock or a price of 0 included
C25_EditFormPrefilled ==
    [][/\ (dashboard.editingProduct = << >> /\ dashboard'.editingProduct # << >>) =>
              \A f \in EditFormFields :
                  SameValue(dashboard'.editForm[f],
                            ProductField(dashboard'.editingProduct[1], f))
       /\ (Len(putRequests') > Len(putRequests)
             /\ \E i \in 1..Len(dashboard.products) :
                   dashboard.editingProduct = << dashboard.products[i] >>
             /\ \A f \in EditFormFields : \A v \in EditFormValues(f) : dashboard.editForm[f] # v) =>
              \A f \in EditFormFields :
                  SameValue(putRequests'[Len(putRequests')].body[f],
                            ProductField(dashboard.editingProduct[1], f))]_vars

(* ================ properties of the product detail page ================ *)
Pieces == << detail.product, detail.ratingData, detail.comments, detail.ratings >>
AllOk(n) == \A r \in Resources : detailFetches[n].requests[r] = "ok"

\* C26: a call of fetchProductDetails in which a request fails shows the
\* load error and sets none of product, rating stats, comments and ratings;
\* only a call whose four requests succeeded sets them, all four together
C26_AllOrNothing ==
    /\ [][\A n \in 1..Len(detailFetches) :
             (~detailFetches[n].settled /\ detailFetches'[n].settled) =>
                IF \E r \in Resources : detailFetches'[n].requests[r] = "failed"
                THEN /\ detail'.error = << "Failed to load product details" >>
                     /\ Pieces' = Pieces
                ELSE /\ Pieces' = << << n >>, << n >>, << n >>, << n >> >>
                     /\ detail'.error = << >>]_vars
    /\ [](\A i \in 1..4 :
             /\ Pieces[i] = Pieces[1]
             /\ Pieces[i] # << >> => AllOk(Pieces[i][1]))

\* the first call loaded the page; the second call failed in its last
\* request after three answers had arrived: the page still holds the data of
\* the first call, with the load error
C26_Witness ==
    /\ Len(detailFetches) = 2
    /\ AllOk(1)
    /\ detailFetches[2].settled
    /\ Cardinality({ r \in Resources : detailFetches[2].requests[r] = "ok" }) = 3
    /\ Pieces = << << 1 >>, << 1 >>, << 1 >>, << 1 >> >>
    /\ detail.error = << "Failed to load product details" >>
    /\ ~detail.loading

(* ================= properties of overlapping fetches =================== *)
ProductIds(list) == { list[i].id : i \in 1..Len(list) }

\* C27: once every fetch in flight has completed, the displayed product
\* list and the rating map are those of the latest category and search term
C27_LatestPropsWin ==
    (fetches = {} /\ ~loading /\ error = << >>) =>
        /\ products = FetchedList(Catalogue, category, searchTerm)
        /\ DOMAIN productRatings \subseteq ProductIds(FetchedList(Catalogue, category, searchTerm))

\* C28: while the listing is shown no fetch is outstanding, and the rating
\* map belongs to the fetch of the shown product list: the list is the
\* result of one fetch and the map rates products of that list only
C28_ListAndRatingsOfOneFetch ==
    (~loading /\ error = << >>) =>
        /\ fetches = {}
        /\ \E pv \in PropsValues : products = FetchedList(Catalogue, pv[1], pv[2])
        /\ DOMAIN productRatings \subseteq ProductIds(products)

(* =================== the rating buckets as a partition ================= *)
\* the rating map that holds the stats of the helper call's product
ArgRatings == IF HasStats THEN [id \in { arg.product.id } |-> ArgStats] ELSE << >>

\* C29: for stats that are absent, have rating_count = 0, or have
\* rating_count > 0 and an average, exactly one bucket test holds; the
\* product passes the filter with all five buckets selected, and with one
\* bucket selected exactly when it is the bucket of its stats
C29_BucketsPartition ==
    res.op = "RATING_BUCKETS" =>
        /\ Cardinality(res.val) = 1
        /\ passesFilters(arg.product, ArgRatings, {}, {}, {}, BucketKeys, now)
        /\ \A k \in BucketKeys :
              passesFilters(arg.product, ArgRatings, {}, {}, {}, { k }, now) <=> k \in res.val

\* stats with an average of exactly 4.5 are in the top bucket only
C29_Witness ==
    /\ res.op = "RATING_BUCKETS" /\ Rated
    /\ ArgStats.average_rating = << 450 >>
    /\ res.val = { "45_5" }

(* ==================== properties of the mock cart ====================== *)
\* the stored cart has one entry per product id at most
OneEntryPerProduct ==
    \A i, j \in 1..Len(localStorage) :
        localStorage[i].product_id = localStorage[j].product_id => i = j
\* adding a product of the cart adds the amount to its entry, adding another
\* product appends one entry; the other entries stay
AddMerges ==
    \A p \in MockProductIds, q \in 1..2, r \in 0..(RandomSteps - 1) :
        addToMockCart(p, q, r) =>
            LET at == FindProduct(localStorage, p)
            IN IF at # 0
               THEN localStorage' = [localStorage EXCEPT ![at].quantity = localStorage[at].quantity + q]
               ELSE /\ Len(localStorage') = Len(localStorage) + 1
                    /\ SubSeq(localStorage', 1, Len(localStorage)) = localStorage
                    /\ localStorage'[Len(localStorage')].product_id = p
                    /\ localStorage'[Len(localStorage')].quantity = q
\* removing the entry with a given id takes that one entry out of the cart
RemoveTakesOne ==
    \A id \in ItemIds :
        (removeMockCartItem(id) /\ FindItem(localStorage, id) # 0) =>
            /\ Len(localStorage') = Len(localStorage) - 1
            /\ \A i \in 1..Len(localStorage) :
                  i # FindItem(localStorage, id) =>
                     \E j \in 1..Len(localStorage') : localStorage'[j] = localStorage[i]

\* C30: after any calls of addToMockCart, removeMockCartItem and
\* updateMockCartItem the stored cart has at most one entry per product id;
\* adding a product of the cart raises the quantity of its entry by the
\* added amount, and removing an entry removes that entry only
C30_OneCartEntryPerProduct ==
    /\ []OneEntryPerProduct
    /\ [][AddMerges /\ RemoveTakesOne]_vars

\* the part of C30 that does not depend on the entry ids
MockCartMergePart ==
    /\ []OneEntryPerProduct
    /\ [][AddMerges]_vars

====
